---- MODULE Spec2Model ----
(***************************************************************************)
(* BetFaro backend: the fixture validator, the statistics aggregator, the  *)
(* consistency checker (backend/fixture_processor.py) and the chat request *)
(* flow that uses them (backend/chatbot.py).                               *)
(*                                                                         *)
(* A raw fixture is a record                                               *)
(*   [id, date, status, ltype, lname, home, away, gh, ga]                  *)
(* id/home/away/gh/ga : integers, None when the JSON value is null/absent  *)
(* date               : a date string, see DateStr below                   *)
(* status             : fixture.status.short                               *)
(* ltype, lname       : league.type / league.name as sequences of          *)
(*                      characters, NullStr when the JSON value is null    *)
(***************************************************************************)
EXTENDS Integers, Sequences, FiniteSets, TLC

\* ------------------------------------------------------------------------
\* Bounds of the model
\* ------------------------------------------------------------------------
\* longest raw batch of the ordering specification
MaxBatch == 3
\* longest raw batch of the validity specification (needs >= 5 survivors)
MaxLong == 6
\* longest raw batch of the filtering specification
MaxMixed == 2
\* largest requested sample size n
MaxN == 3
\* largest requested sample size of the validity specification
MaxRequested == 7
\* last tick of the wall clock
MaxNow == 1
\* longest fixture list handed to the consistency checker
MaxSet == 2
\* most goals a side scores
MaxGoals == 2
\* length of the batches of the friendly specification
MaxFriendlyBatch == 10
\* most non-league records in a batch of the friendly specification
MaxFriendly == 2
\* largest form window asked for
MaxWindow == 2
\* most table keys the name is compared with in the fuzzy stage
MaxKeys == 2
\* most teams the remote search returns
MaxCandidates == 2
\* number of leagues whose teams a refresh of the index loads
MaxLeagues == 2

\* ------------------------------------------------------------------------
\* Values
\* ------------------------------------------------------------------------
\* Python None for an integer-valued JSON field
None == -1

\* a null league name / type (league.get("name", "") returns None)
NullStr == <<"\\0">>

Min(a, b) == IF a < b THEN a ELSE b

Abs(x) == IF x < 0 THEN 0 - x ELSE x

\* ------------------------------------------------------------------------
\* Date strings.  An ISO string "YYYY-MM-DDTHH:MM:SS<sfx>" is the pair of its
\* fixed-width local part (an hour count) and its suffix; the other strings
\* the provider can send are kept by kind.
\*   kind "iso"     parseable; sfx "" is a naive timestamp (no offset)
\*   kind "empty"   "" or null
\*   kind "garbage" any text datetime.fromisoformat rejects
\* ------------------------------------------------------------------------
IsoDate(local, sfx) == [kind |-> "iso", local |-> local, sfx |-> sfx]

EmptyDate == [kind |-> "empty", local |-> 0, sfx |-> ""]

GarbageDate == [kind |-> "garbage", local |-> 0, sfx |-> ""]

\* UTC offset, in hours, that a suffix denotes ("Z" is rewritten to "+00:00"
\* before parsing)
Offset(sfx) ==
    CASE sfx = "Z" -> 0
      [] sfx = "+00:00" -> 0
      [] sfx = "-01:00" -> 0 - 1
      [] sfx = "+01:00" -> 1
      [] OTHER -> 0

\* rank of a suffix in Python's string order: "" < "+.." < "-.." < "Z"
\* (a proper prefix sorts first; '+' = 43, '-' = 45, 'Z' = 90)
SfxRank(sfx) ==
    CASE sfx = "" -> 0
      [] sfx = "+00:00" -> 1
      [] sfx = "+01:00" -> 2
      [] sfx = "-01:00" -> 3
      [] sfx = "Z" -> 4
      [] OTHER -> 5

\* datetime.fromisoformat(s.replace("Z", "+00:00")) succeeds
Parses(d) == d.kind = "iso"

\* the parsed datetime carries a tzinfo
Aware(d) == d.kind = "iso" /\ d.sfx # ""

\* the instant an aware datetime denotes (hours, UTC)
Instant(d) == d.local - Offset(d.sfx)

\* Python's < on the raw date strings (only iso strings reach the sort)
StrLess(d1, d2) ==
    \/ d1.local < d2.local
    \/ d1.local = d2.local /\ SfxRank(d1.sfx) < SfxRank(d2.sfx)

\* ------------------------------------------------------------------------
\* Strings as sequences of characters, so that lower() and the substring
\* test `keyword in league_name` are computed
\* ------------------------------------------------------------------------
UpperAlphabet == <<"A", "B", "C", "D", "E", "F", "G", "H", "I", "J", "K", "L", "M", "N", "O", "P", "Q", "R", "S", "T", "U", "V", "W", "X", "Y", "Z">>

LowerAlphabet == <<"a", "b", "c", "d", "e", "f", "g", "h", "i", "j", "k", "l", "m", "n", "o", "p", "q", "r", "s", "t", "u", "v", "w", "x", "y", "z">>

\* str.lower() on one character
LowerChar(c) ==
    IF \E i \in 1..Len(UpperAlphabet) : UpperAlphabet[i] = c
    THEN LowerAlphabet[CHOOSE i \in 1..Len(UpperAlphabet) : UpperAlphabet[i] = c]
    ELSE c

\* str.lower()
Lower(str) == [i \in 1..Len(str) |-> LowerChar(str[i])]

\* Python's `sub in str`
Contains(str, sub) ==
    \E i \in 1..(Len(str) - Len(sub) + 1) : SubSeq(str, i, i + Len(sub) - 1) = sub

\* FINAL_STATUSES with a live code added
FINAL_STATUSES_WithLive == {"FT", "AET", "PEN", "HT"}

\* FixtureProcessor.FINAL_STATUSES
FINAL_STATUSES == {"FT", "AET", "PEN"}

\* FixtureProcessor.FRIENDLY_KEYWORDS
FRIENDLY_KEYWORDS == {
    <<"f", "r", "i", "e", "n", "d", "l", "y">>,
    <<"a", "m", "i", "s", "t", "o", "s", "o">>,
    <<"c", "h", "a", "r", "i", "t", "y">>,
    <<"b", "e", "n", "e", "f", "i", "c", "e", "n", "t", "e">>,
    <<"t", "e", "s", "t", " ", "m", "a", "t", "c", "h">>,
    <<"e", "x", "h", "i", "b", "i", "t", "i", "o", "n">>,
    <<"t", "e", "s", "t", "i", "m", "o", "n", "i", "a", "l">>,
    <<"m", "e", "m", "o", "r", "i", "a", "l">>,
    <<"t", "r", "o", "p", "h", "y", " ", "f", "r", "i", "e", "n", "d", "l", "y">>,
    <<"p", "r", "e", "-", "s", "e", "a", "s", "o", "n">>,
    <<"p", "r", "e", " ", "s", "e", "a", "s", "o", "n">>,
    <<"p", "r", "e", "s", "e", "a", "s", "o", "n">>,
    <<"c", "l", "u", "b", " ", "f", "r", "i", "e", "n", "d", "l", "y">> }

\* FixtureProcessor.EXCLUDED_TYPES
EXCLUDED_TYPES == {
    <<"f", "r", "i", "e", "n", "d", "l", "y">>,
    <<"c", "l", "u", "b", " ", "f", "r", "i", "e", "n", "d", "l", "y">>,
    <<"i", "n", "t", "e", "r", "n", "a", "t", "i", "o", "n", "a", "l", " ", "f", "r", "i", "e", "n", "d", "l", "y">> }

\* The league types and names of the model's fixtures
Str_League == <<"L", "e", "a", "g", "u", "e">>

Str_Cup == <<"C", "u", "p">>

Str_Friendly == <<"F", "r", "i", "e", "n", "d", "l", "y">>

Str_SerieA == <<"S", "e", "r", "i", "e", " ", "A">>

Str_ClubFriendlies == <<"C", "l", "u", "b", " ", "F", "r", "i", "e", "n", "d", "l", "i", "e", "s">>

Str_CharityShield == <<"C", "H", "A", "R", "I", "T", "Y", " ", "S", "h", "i", "e", "l", "d">>

Str_Empty == << >>

LeagueTypes == { Str_League, Str_Cup, Str_Friendly, Str_Empty }

LeagueNames == { Str_SerieA, Str_ClubFriendlies, Str_CharityShield, Str_Friendly, Str_Empty }

\* `league_type in self.EXCLUDED_TYPES`, league_type = league.type.lower();
\* tabulated over the league types of the model
ExcludedType == [ ltype \in LeagueTypes |-> Lower(ltype) \in EXCLUDED_TYPES ]

\* the keyword test on the league name as written, without .lower()
FriendlyName_CaseSensitive ==
    [ lname \in LeagueNames |->
        \E keyword \in FRIENDLY_KEYWORDS : Contains(lname, keyword) ]

\* `any(keyword in league_name for keyword in self.FRIENDLY_KEYWORDS)`,
\* league_name = league.name.lower(); tabulated over the league names
FriendlyName ==
    [ lname \in LeagueNames |->
        \E keyword \in FRIENDLY_KEYWORDS : Contains(Lower(lname), keyword) ]

\* ------------------------------------------------------------------------
\* FixtureProcessor.get_last_team_fixtures
\* ------------------------------------------------------------------------
\* result["stats"] before the loop
InitialStats(total_raw) ==
    [ total_raw |-> total_raw,
      excluded_friendlies |-> 0,
      excluded_unfinished |-> 0,
      excluded_no_score |-> 0,
      excluded_team_not_in_fixture |-> 0,
      excluded_duplicates |-> 0,
      excluded_future |-> 0 ]

\* VALIDATION 2 looking at the home side only
Participates_HomeOnly(team_id, fixture) == team_id = fixture.home

\* VALIDATION 2: `team_id in [home_id, away_id]`
Participates(team_id, fixture) == team_id \in {fixture.home, fixture.away}

\* VALIDATIONS 2 to 6 of the loop body, for a fixture that is no duplicate
ValidationAfterDuplicates(fixture, team_id, now) ==
    IF ~Participates(team_id, fixture) THEN "team_not_in_fixture"
    ELSE IF fixture.lname = NullStr \/ fixture.ltype = NullStr THEN "raise"
    ELSE IF ExcludedType[fixture.ltype] THEN "friendly_type"
    ELSE IF FriendlyName[fixture.lname] THEN "friendly_name"
    ELSE IF fixture.date.kind = "empty" THEN "no_date"
    ELSE IF ~Parses(fixture.date) THEN "invalid_date"
    ELSE IF ~Aware(fixture.date) THEN "invalid_date"
    ELSE IF Instant(fixture.date) > now THEN "future"
    ELSE IF fixture.status \notin FINAL_STATUSES THEN "unfinished"
    ELSE IF fixture.gh = None \/ fixture.ga = None THEN "no_score"
    ELSE "pass"

\* VALIDATION 1 without the seen_ids test
Validation_NoDuplicateCheck(fixture, seen_ids, team_id, now) ==
    IF fixture.id = None THEN "no_id"
    ELSE ValidationAfterDuplicates(fixture, team_id, now)

\* The outcome of the loop body for one fixture: the validation that ends
\* the iteration ("pass" when the fixture is appended), or "raise" when the
\* body throws (.lower() on a null league name or type)
Validation(fixture, seen_ids, team_id, now) ==
    IF fixture.id = None THEN "no_id"
    ELSE IF fixture.id \in seen_ids THEN "duplicate"
    ELSE ValidationAfterDuplicates(fixture, team_id, now)

\* the counter the loop body increments for an outcome, "" when none
CounterOf(outcome) ==
    CASE outcome = "duplicate" -> "excluded_duplicates"
      [] outcome = "team_not_in_fixture" -> "excluded_team_not_in_fixture"
      [] outcome \in {"friendly_type", "friendly_name"} -> "excluded_friendlies"
      [] outcome = "future" -> "excluded_future"
      [] outcome = "unfinished" -> "excluded_unfinished"
      [] outcome = "no_score" -> "excluded_no_score"
      [] OTHER -> ""

\* the loop body remembering only the ids of the fixtures it appends
LoopBody_SeenOnPass(acc, fixture, team_id, now) ==
    LET outcome == Validation(fixture, acc.seen_ids, team_id, now)
        counter == CounterOf(outcome)
    IN  IF acc.raised THEN acc
        ELSE [ valid_fixtures |-> IF outcome = "pass"
                                  THEN Append(acc.valid_fixtures, fixture)
                                  ELSE acc.valid_fixtures,
               seen_ids |-> IF outcome = "pass"
                            THEN acc.seen_ids \cup {fixture.id}
                            ELSE acc.seen_ids,
               stats |-> IF counter = ""
                         THEN acc.stats
                         ELSE [acc.stats EXCEPT ![counter] = @ + 1],
               raised |-> outcome = "raise" ]

\* one iteration of `for fixture in raw_fixtures` on the loop state
\* [valid_fixtures, seen_ids, stats, raised]
LoopBody(acc, fixture, team_id, now) ==
    LET outcome == Validation(fixture, acc.seen_ids, team_id, now)
        counter == CounterOf(outcome)
        seen == IF outcome \in {"no_id", "duplicate"}
                THEN acc.seen_ids
                ELSE acc.seen_ids \cup {fixture.id}
    IN  IF acc.raised THEN acc
        ELSE [ valid_fixtures |-> IF outcome = "pass"
                                  THEN Append(acc.valid_fixtures, fixture)
                                  ELSE acc.valid_fixtures,
               seen_ids |-> seen,
               stats |-> IF counter = ""
                         THEN acc.stats
                         ELSE [acc.stats EXCEPT ![counter] = @ + 1],
               raised |-> outcome = "raise" ]

RECURSIVE Loop(_, _, _, _, _)
\* the loop over raw_fixtures[i..], from loop state acc
Loop(raw_fixtures, i, acc, team_id, now) ==
    IF i > Len(raw_fixtures) THEN acc
    ELSE Loop(raw_fixtures, i + 1, LoopBody(acc, raw_fixtures[i], team_id, now),
              team_id, now)

\* the sort key without the id: ties keep the order of arrival
KeyLess_DateOnly(a, b) == StrLess(a.date, b.date)

\* the sort key (date, id) compared by Python's tuple order
KeyLess(a, b) ==
    \/ StrLess(a.date, b.date)
    \/ a.date = b.date /\ a.id < b.id

RECURSIVE InsertDesc(_, _)
\* insert x into a descending list after every element whose key is not
\* smaller (list.sort is stable, also with reverse=True)
InsertDesc(x, sorted) ==
    IF sorted = << >> THEN << x >>
    ELSE IF KeyLess(Head(sorted), x) THEN << x >> \o sorted
    ELSE << Head(sorted) >> \o InsertDesc(x, Tail(sorted))

RECURSIVE SortDesc(_, _)
\* valid_fixtures.sort(key=(date, id), reverse=True), folding list[i..]
SortDesc(list, acc) ==
    IF list = << >> THEN acc
    ELSE SortDesc(Tail(list), InsertDesc(Head(list), acc))

\* list[:n + 1]
Take_OneMore(list, n) == SubSeq(list, 1, Min(n + 1, Len(list)))

\* list[:n] for n >= 0
Take(list, n) == SubSeq(list, 1, Min(n, Len(list)))

\* the error strings of result["errors"]
ErrNoFixtures == [kind |-> "no_fixtures_received", got |-> 0, wanted |-> 0]

ErrBelowMinimum(got, minimum) ==
    [kind |-> "below_minimum", got |-> got, wanted |-> minimum]

ErrFewerThanRequested(got, n) ==
    [kind |-> "fewer_than_requested", got |-> got, wanted |-> n]

\* minimum number of games for an analysis
MIN_GAMES == 5

\* the same minimum in the inline validator of the chat flow
MIN_GAMES_INLINE == 5

\* `len(final_fixtures) > 5`
IsValid_Strict(final_fixtures) == Len(final_fixtures) > MIN_GAMES

\* validity of the final list: `len(final_fixtures) >= 5`
IsValid(final_fixtures) == Len(final_fixtures) >= MIN_GAMES

\* the call, made at wall-clock time now; raised marks a call that threw
get_last_team_fixtures(raw_fixtures, team_id, n, now) ==
    IF raw_fixtures = << >>
    THEN [ raised |-> FALSE, valid |-> FALSE, fixtures |-> << >>,
           fixture_ids |-> << >>, errors |-> << ErrNoFixtures >>,
           stats |-> InitialStats(0) ]
    ELSE
    LET acc == Loop(raw_fixtures, 1,
                    [ valid_fixtures |-> << >>, seen_ids |-> {},
                      stats |-> InitialStats(Len(raw_fixtures)),
                      raised |-> FALSE ],
                    team_id, now)
        final_fixtures == Take(SortDesc(acc.valid_fixtures, << >>), n)
        k == Len(final_fixtures)
        errors1 == IF IsValid(final_fixtures) THEN << >>
                   ELSE << ErrBelowMinimum(k, MIN_GAMES) >>
        errors2 == IF k < n THEN << ErrFewerThanRequested(k, n) >> ELSE << >>
    IN  IF acc.raised
        THEN [ raised |-> TRUE, valid |-> FALSE, fixtures |-> << >>,
               fixture_ids |-> << >>, errors |-> << >>, stats |-> acc.stats ]
        ELSE [ raised |-> FALSE,
               valid |-> IsValid(final_fixtures),
               fixtures |-> final_fixtures,
               fixture_ids |-> [j \in 1..k |-> final_fixtures[j].id],
               errors |-> errors1 \o errors2,
               stats |-> acc.stats ]

\* ------------------------------------------------------------------------
\* FixtureProcessor.calculate_stats / get_form_string
\* A real-valued statistic is the exact fraction [num, den], den > 0
\* ------------------------------------------------------------------------
Frac(num, den) == [num |-> num, den |-> den]

\* (count / n) * 100
Pct(count, total) == Frac(count * 100, total)

\* abs(a - b) > tolerance, for a tolerance of tol_num / tol_den
DiffersBeyond(a, b, tol_num, tol_den) ==
    tol_den * Abs(a.num * b.den - b.num * a.den) > tol_num * a.den * b.den

\* the counters and sums of calculate_stats before its loop
ZeroCounts ==
    [ over_0_5_count |-> 0, over_1_5_count |-> 0, over_2_5_count |-> 0,
      over_3_5_count |-> 0, btts_count |-> 0, wins |-> 0, draws |-> 0,
      losses |-> 0, clean_sheets |-> 0, failed_to_score |-> 0,
      sum_goals_for |-> 0, sum_goals_against |-> 0, sum_total_goals |-> 0 ]

\* total_goals counted from the home side only
TotalGoals_HomeSideOnly(fixture) == fixture.gh

\* total_goals = home_goals + away_goals, the goals of the match
TotalGoals(fixture) == fixture.gh + fixture.ga

\* the perspective taken from the away side
StatsIsHome_AwaySide(fixture, team) == fixture.away = team

\* is_home = home_team.get("id") == team_id
StatsIsHome(fixture, team) == fixture.home = team

\* one iteration of the loop of calculate_stats
CountFixture(c, fixture, team) ==
    IF fixture.gh = None \/ fixture.ga = None THEN c
    ELSE
    LET home_goals == fixture.gh
        away_goals == fixture.ga
        is_home == StatsIsHome(fixture, team)
        goals_for == IF is_home THEN home_goals ELSE away_goals
        goals_against == IF is_home THEN away_goals ELSE home_goals
        total_goals == TotalGoals(fixture)
        Inc(cond) == IF cond THEN 1 ELSE 0
    IN  [ over_0_5_count |-> c.over_0_5_count + Inc(total_goals > 0),
          over_1_5_count |-> c.over_1_5_count + Inc(total_goals > 1),
          over_2_5_count |-> c.over_2_5_count + Inc(total_goals > 2),
          over_3_5_count |-> c.over_3_5_count + Inc(total_goals > 3),
          btts_count |-> c.btts_count + Inc(home_goals > 0 /\ away_goals > 0),
          wins |-> c.wins + Inc(goals_for > goals_against),
          draws |-> c.draws + Inc(goals_for = goals_against),
          losses |-> c.losses + Inc(goals_for < goals_against),
          clean_sheets |-> c.clean_sheets + Inc(goals_against = 0),
          failed_to_score |-> c.failed_to_score + Inc(goals_for = 0),
          sum_goals_for |-> c.sum_goals_for + goals_for,
          sum_goals_against |-> c.sum_goals_against + goals_against,
          sum_total_goals |-> c.sum_total_goals + total_goals ]

RECURSIVE CountFixtures(_, _, _, _)
\* the loop of calculate_stats over fixtures[i..]
CountFixtures(fixtures, i, c, team) ==
    IF i > Len(fixtures) THEN c
    ELSE CountFixtures(fixtures, i + 1, CountFixture(c, fixtures[i], team), team)

\* the stats dict built from the counters, total = len(fixtures) > 0
StatsDict(c, total) ==
    [ over_0_5_pct |-> Pct(c.over_0_5_count, total),
      over_1_5_pct |-> Pct(c.over_1_5_count, total),
      over_2_5_pct |-> Pct(c.over_2_5_count, total),
      over_3_5_pct |-> Pct(c.over_3_5_count, total),
      btts_pct |-> Pct(c.btts_count, total),
      win_rate_pct |-> Pct(c.wins, total),
      draw_rate_pct |-> Pct(c.draws, total),
      loss_rate_pct |-> Pct(c.losses, total),
      clean_sheet_pct |-> Pct(c.clean_sheets, total),
      failed_to_score_pct |-> Pct(c.failed_to_score, total),
      avg_goals_for |-> Frac(c.sum_goals_for, total),
      avg_goals_against |-> Frac(c.sum_goals_against, total),
      avg_total_goals_per_match |-> Frac(c.sum_total_goals, total),
      fixtures_used |-> total,
      wins |-> c.wins, draws |-> c.draws, losses |-> c.losses,
      over_2_5_count |-> c.over_2_5_count, btts_count |-> c.btts_count,
      sum_goals_for |-> c.sum_goals_for,
      sum_goals_against |-> c.sum_goals_against,
      sum_total_goals |-> c.sum_total_goals,
      \* legacy field names
      over_2_5 |-> Pct(c.over_2_5_count, total),
      over_1_5 |-> Pct(c.over_1_5_count, total),
      btts |-> Pct(c.btts_count, total),
      win_rate |-> Pct(c.wins, total),
      clean_sheet_rate |-> Pct(c.clean_sheets, total),
      failed_to_score_rate |-> Pct(c.failed_to_score, total),
      avg_total_goals |-> Frac(c.sum_total_goals, total) ]

\* FixtureProcessor._empty_stats: every field 0
empty_stats ==
    LET zero == Frac(0, 1)
    IN  [ over_0_5_pct |-> zero, over_1_5_pct |-> zero, over_2_5_pct |-> zero,
          over_3_5_pct |-> zero, btts_pct |-> zero, win_rate_pct |-> zero,
          draw_rate_pct |-> zero, loss_rate_pct |-> zero,
          clean_sheet_pct |-> zero, failed_to_score_pct |-> zero,
          avg_goals_for |-> zero, avg_goals_against |-> zero,
          avg_total_goals_per_match |-> zero,
          fixtures_used |-> 0, wins |-> 0, draws |-> 0, losses |-> 0,
          over_2_5_count |-> 0, btts_count |-> 0,
          sum_goals_for |-> 0, sum_goals_against |-> 0, sum_total_goals |-> 0,
          over_2_5 |-> zero, over_1_5 |-> zero, btts |-> zero,
          win_rate |-> zero, clean_sheet_rate |-> zero,
          failed_to_score_rate |-> zero, avg_total_goals |-> zero ]

calculate_stats(fixtures, team) ==
    IF fixtures = << >> THEN empty_stats
    ELSE StatsDict(CountFixtures(fixtures, 1, ZeroCounts, team), Len(fixtures))

\* the symbol read from the home side whoever the analysed team is
FormSymbol_HomePerspective(fixture, team) ==
    IF fixture.gh > fixture.ga THEN "V"
    ELSE IF fixture.gh = fixture.ga THEN "E"
    ELSE "D"

\* the symbol get_form_string appends for a fixture with both goal counts
FormSymbol(fixture, team) ==
    LET is_home == fixture.home = team
        goals_for == IF is_home THEN fixture.gh ELSE fixture.ga
        goals_against == IF is_home THEN fixture.ga ELSE fixture.gh
    IN  IF goals_for > goals_against THEN "V"
        ELSE IF goals_for = goals_against THEN "E"
        ELSE "D"

RECURSIVE FormOf(_, _)
\* the loop of get_form_string over a list
FormOf(fixtures, team) ==
    IF fixtures = << >> THEN << >>
    ELSE LET f == Head(fixtures)
             rest == FormOf(Tail(fixtures), team)
         IN  IF f.gh = None \/ f.ga = None THEN rest
             ELSE << FormSymbol(f, team) >> \o rest

\* get_form_string(fixtures, team_id, n): the symbols of fixtures[:n], which
\* " ".join turns into the form string
get_form_string(fixtures, team, window) == FormOf(Take(fixtures, window), team)

\* ------------------------------------------------------------------------
\* FixtureProcessor.validate_stats_consistency
\* ------------------------------------------------------------------------
\* the (claimed key, label) pairs the function compares, in its order
CHECKED_FIELDS == << "over_2_5", "btts", "avg_total_goals", "avg_goals_for" >>

\* tolerance = 0.5, as the fraction 1 / TOLERANCE_DEN
TOLERANCE_DEN == 2

\* the issues of the numeric comparisons, in order
StatIssues(stats, recalc) ==
    SelectSeq(CHECKED_FIELDS,
              LAMBDA key : DiffersBeyond(stats[key], recalc[key], 1, TOLERANCE_DEN))

\* window of the recomputed form
FORM_WINDOW == 5

validate_stats_consistency(fixtures, stats, form, team) ==
    IF fixtures = << >>
    THEN [ valid |-> FALSE, issues |-> << "no_fixtures" >>,
           recalculated |-> empty_stats, recalculated_form |-> << >> ]
    ELSE
    LET recalc == calculate_stats(fixtures, team)
        recalc_form == get_form_string(fixtures, team, FORM_WINDOW)
        issues == StatIssues(stats, recalc)
                    \o (IF form # recalc_form THEN << "form" >> ELSE << >>)
    IN  [ valid |-> Len(issues) = 0, issues |-> issues,
          recalculated |-> recalc, recalculated_form |-> recalc_form ]

\* ------------------------------------------------------------------------
\* ChatBot._validate_fixtures: the inline validator of the chat flow
\* ------------------------------------------------------------------------
\* The outcome of its loop body for one fixture.  A null id is an id like
\* any other; the team's participation is not tested; a naive timestamp is
\* compared with the server's local clock, which runs in UTC
InlineValidation(fixture, seen_ids, now) ==
    IF fixture.id \in seen_ids THEN "duplicate"
    ELSE IF fixture.lname = NullStr \/ fixture.ltype = NullStr THEN "raise"
    ELSE IF ExcludedType[fixture.ltype] THEN "friendly_type"
    ELSE IF FriendlyName[fixture.lname] THEN "friendly_name"
    ELSE IF fixture.date.kind = "empty" THEN "no_date"
    ELSE IF ~Parses(fixture.date) THEN "invalid_date"
    ELSE IF Instant(fixture.date) > now THEN "future"
    ELSE IF fixture.status \notin {"FT", "AET", "PEN"} THEN "unfinished"
    ELSE IF fixture.gh = None \/ fixture.ga = None THEN "no_score"
    ELSE IF fixture.home \in {None, 0} \/ fixture.away \in {None, 0} THEN "no_team"
    ELSE "pass"

\* one iteration of its loop on [valid_fixtures, seen_ids, excluded_*, raised]
InlineLoopBody(acc, fixture, now) ==
    LET outcome == InlineValidation(fixture, acc.seen_ids, now)
        Inc(cond) == IF cond THEN 1 ELSE 0
    IN  IF acc.raised THEN acc
        ELSE [ valid_fixtures |-> IF outcome = "pass"
                                  THEN Append(acc.valid_fixtures, fixture)
                                  ELSE acc.valid_fixtures,
               seen_ids |-> acc.seen_ids \cup {fixture.id},
               excluded_friendlies |->
                   acc.excluded_friendlies
                     + Inc(outcome \in {"friendly_type", "friendly_name"}),
               excluded_unfinished |->
                   acc.excluded_unfinished + Inc(outcome = "unfinished"),
               excluded_no_score |->
                   acc.excluded_no_score + Inc(outcome = "no_score"),
               raised |-> outcome = "raise" ]

RECURSIVE InlineLoop(_, _, _, _)
InlineLoop(fixtures, i, acc, now) ==
    IF i > Len(fixtures) THEN acc
    ELSE InlineLoop(fixtures, i + 1, InlineLoopBody(acc, fixtures[i], now), now)

\* sorting compares None with an integer id, and throws, when the fixture
\* with the null id shares its date string with another one
SortRaises(list) ==
    \E i, j \in 1..Len(list) :
        i # j /\ list[i].id = None /\ list[i].date = list[j].date

validate_fixtures(fixtures, team, required, now) ==
    IF fixtures = << >>
    THEN [ raised |-> FALSE, valid |-> FALSE, fixtures |-> << >>,
           fixture_ids |-> << >>, errors |-> << ErrNoFixtures >>,
           excluded_friendlies |-> 0, excluded_unfinished |-> 0,
           excluded_no_score |-> 0, total_raw |-> 0 ]
    ELSE
    LET acc == InlineLoop(fixtures, 1,
                          [ valid_fixtures |-> << >>, seen_ids |-> {},
                            excluded_friendlies |-> 0, excluded_unfinished |-> 0,
                            excluded_no_score |-> 0, raised |-> FALSE ],
                          now)
        final_fixtures == Take(SortDesc(acc.valid_fixtures, << >>), required)
        k == Len(final_fixtures)
        valid == IF k < required THEN k >= MIN_GAMES_INLINE ELSE TRUE
    IN  IF acc.raised \/ SortRaises(acc.valid_fixtures)
        THEN [ raised |-> TRUE, valid |-> FALSE, fixtures |-> << >>,
               fixture_ids |-> << >>, errors |-> << >>,
               excluded_friendlies |-> 0, excluded_unfinished |-> 0,
               excluded_no_score |-> 0, total_raw |-> Len(fixtures) ]
        ELSE [ raised |-> FALSE,
               valid |-> valid,
               fixtures |-> IF valid THEN final_fixtures ELSE << >>,
               fixture_ids |-> [j \in 1..k |-> final_fixtures[j].id],
               errors |-> IF k < required
                          THEN << ErrFewerThanRequested(k, required) >>
                          ELSE << >>,
               excluded_friendlies |-> acc.excluded_friendlies,
               excluded_unfinished |-> acc.excluded_unfinished,
               excluded_no_score |-> acc.excluded_no_score,
               total_raw |-> Len(fixtures) ]

\* ------------------------------------------------------------------------
\* TeamResolver (backend/team_resolver.py).  Scores and confidences are in
\* hundredths: 75 is 0.75.
\* ------------------------------------------------------------------------
\* confidence of an alias hit or a direct hit of a local table
LOCAL_CONFIDENCE == 95
\* least similarity for a key of a local table to become the best match
FUZZY_FLOOR == 75
\* least best score for the fuzzy match to be returned without Brazil context
FUZZY_ACCEPT == 85
\* least confidence for the local result to be returned before the search
LOCAL_ACCEPT == 85
\* bonus of a Brazilian candidate when the context indicates Brazil
BRAZIL_BONUS == 15
\* the score 1.0
FULL_SCORE == 100
\* least score for the best candidate of the search to be returned
API_ACCEPT == 75
\* least confidence for the local result to be returned after the search
FALLBACK_ACCEPT == 75
\* number of search results that are ranked
API_LIMIT == 10
\* number of candidates suggested when the best one scores too low
SUGGESTION_LIMIT == 3
\* number of suggestions the message of an ambiguous pair lists
MESSAGE_LIMIT == 6

\* the values SequenceMatcher.ratio() takes in the model
SIMILARITIES == { 60, 75, 84, 85, 100 }

\* resolve_local returned None
NoLocalResult == [found |-> FALSE, id |-> None, confidence |-> 0, why |-> "none"]

\* the two fuzzy loops of resolve_local over the keys from the i-th on:
\* a key replaces the best match when it scores strictly more and at least
\* FUZZY_FLOOR (best_score starts at 0, best_match at None)
RECURSIVE BestFuzzy(_, _, _)
BestFuzzy(key_scores, i, best) ==
    IF i > Len(key_scores) THEN best
    ELSE BestFuzzy(key_scores, i + 1,
                   IF key_scores[i] > best.best_score /\ key_scores[i] >= FUZZY_FLOOR
                   THEN [best_score |-> key_scores[i], best_match |-> i]
                   ELSE best)

\* TeamResolver.resolve_local.  exact: the name hits an alias table or a
\* team table; key_scores: the similarity of the name to each key of the
\* team tables, in table order.  The team of an exact hit has id 0, the
\* team under the i-th key has id i.
resolve_local(exact, key_scores, prefer_brazil) ==
    IF exact
    THEN [found |-> TRUE, id |-> 0, confidence |-> LOCAL_CONFIDENCE, why |-> "exact"]
    ELSE LET best == BestFuzzy(key_scores, 1, [best_score |-> 0, best_match |-> None])
         IN  IF best.best_match # None /\ (prefer_brazil \/ best.best_score >= FUZZY_ACCEPT)
             THEN [found |-> TRUE, id |-> best.best_match,
                   confidence |-> best.best_score, why |-> "fuzzy"]
             ELSE NoLocalResult

\* min(score, 1.0) without the bound
CapScore_Uncapped(score) == score

\* min(score, 1.0)
CapScore(score) == Min(score, FULL_SCORE)

\* the candidate built from a team of the search results
Candidate(team, prefer_brazil) ==
    [ id |-> team.id, country |-> team.country,
      score |-> CapScore(team.similarity
                         + IF prefer_brazil /\ team.country = "Brazil"
                           THEN BRAZIL_BONUS ELSE 0) ]

\* candidates.sort(key=score, reverse=True): a stable sort, so among equal
\* scores the earlier candidate stays in front
RECURSIVE SortByScore(_)
SortByScore(candidates) ==
    IF candidates = << >> THEN << >>
    ELSE LET first == CHOOSE i \in DOMAIN candidates :
                        /\ \A j \in DOMAIN candidates : candidates[j].score <= candidates[i].score
                        /\ \A j \in 1..(i - 1) : candidates[j].score < candidates[i].score
             rest == [j \in 1..(Len(candidates) - 1) |->
                        IF j < first THEN candidates[j] ELSE candidates[j + 1]]
         IN  << candidates[first] >> \o SortByScore(rest)

\* the ranked candidates of the first API_LIMIT search results
RankCandidates(api_results, prefer_brazil) ==
    LET head == SubSeq(api_results, 1, Min(Len(api_results), API_LIMIT))
    IN  SortByScore([i \in DOMAIN head |-> Candidate(head[i], prefer_brazil)])

\* the dict resolve returns; why names the return statement
Resolved(id, confidence, why) ==
    [ success |-> TRUE, team_id |-> id, confidence |-> confidence,
      why |-> why, ambiguous |-> FALSE, suggestions |-> << >> ]

Unresolved(confidence, why, ambiguous, suggestions) ==
    [ success |-> FALSE, team_id |-> None, confidence |-> confidence,
      why |-> why, ambiguous |-> ambiguous, suggestions |-> suggestions ]

\* TeamResolver.resolve, stage 3: the local result is used with a lower
\* confidence, or the team is not found
resolve_fallback(local_result) ==
    IF local_result.found /\ local_result.confidence >= FALLBACK_ACCEPT
    THEN Resolved(local_result.id, local_result.confidence, "fallback")
    ELSE Unresolved(0, "not_found", FALSE, << >>)

\* TeamResolver.resolve, stage 2 after search_teams returned api_results
resolve_api(api_results, prefer_brazil, local_result) ==
    LET candidates == RankCandidates(api_results, prefer_brazil)
    IN  IF api_results = << >> THEN resolve_fallback(local_result)
        ELSE IF candidates[1].score >= API_ACCEPT
        THEN Resolved(candidates[1].id, candidates[1].score, "api")
        ELSE Unresolved(candidates[1].score, "low_confidence", TRUE,
                        [i \in 1..Min(Len(candidates), SUGGESTION_LIMIT) |-> candidates[i].id])

\* ------------------------------------------------------------------------
\* GlobalIndex (backend/global_index.py).  Times are in seconds.
\* ------------------------------------------------------------------------
\* GlobalIndex.CACHE_TTL
CACHE_TTL == 86400

\* GlobalIndex.__init__.  teams_by_name maps each normalized name to its
\* team, a name that is no key to a team without id; before and responses
\* keep the table at the start of the last refresh and what the provider
\* answers for each league during it; observed is what a lookup read
NewIndex(api) ==
    [ api |-> api,
      teams_by_name |-> [name \in { "alpha", "beta" } |-> [id |-> None]],
      cache_timestamp |-> << >>,
      pc |-> "idle", league_id |-> 0,
      before |-> [name \in { "alpha", "beta" } |-> [id |-> None]],
      responses |-> << >>,
      observed |-> << >> ]

\* GlobalIndex._load_teams, one league: the request raises and the league is
\* skipped, or each team with an id is written into the table under its
\* name (the names of the model are normalized already)
RECURSIVE LoadLeague(_, _, _, _)
LoadLeague(teams_by_name, league_id, response, i) ==
    IF response.raises \/ i > Len(response.teams) THEN teams_by_name
    ELSE LET team == response.teams[i]
         IN  LoadLeague(IF team.id = None THEN teams_by_name
                        ELSE [teams_by_name EXCEPT ![team.name] =
                                [ id |-> team.id, name |-> team.name,
                                  logo |-> team.logo, league_id |-> league_id ]],
                        league_id, response, i + 1)

\* ------------------------------------------------------------------------
VARIABLES
    raw_fixtures,   \* the raw batch handed to the validator
    team_id,        \* the team the batch is validated for
    n,              \* the requested sample size
    now,            \* the wall clock, datetime.now(timezone.utc), in hours
    result,         \* per caller: what its last get_last_team_fixtures returned
    called_at,      \* per caller: the clock at its last call, None before it
    fixture_set,    \* the fixture list handed to the consistency checker
    claimed_stats,  \* the statistics about to be shown
    claimed_form,   \* the form string about to be shown
    report,         \* << >>, or the report validate_stats_consistency returned
    window,         \* the number of records the form string is asked for
    aggregate,      \* << >>, or what calculate_stats and get_form_string returned
    plan,           \* the plan of the user of the chat
    usage,          \* ChatBot._usage_cache[user, today]
    req,            \* per chat request: where it stands and what it returned
    resolution,     \* the call of TeamResolver.resolve: where it stands and
                    \* what it returned
    pair,           \* the call of TeamResolver.resolve_match: where it
                    \* stands, the two results and what it returned
    index           \* the GlobalIndex: its team table, its refresh in
                    \* progress and what a lookup read

validator_vars == << raw_fixtures, n, result, called_at >>

checker_vars == << fixture_set, claimed_stats, claimed_form, report, window, aggregate >>

chat_vars == << plan, usage, req >>

resolver_vars == << resolution, pair, index >>

vars == << validator_vars, team_id, now, checker_vars, chat_vars, resolver_vars >>

\* the callers that validate the same batch (two users' requests)
Callers == {"user_a", "user_b"}

TeamIds == {1, 2}

\* ------------------------------------------------------------------------
\* Raw fixtures the provider can send
\* ------------------------------------------------------------------------
\* a finished official league match between teams 1 and 2
Official(id, date) ==
    [ id |-> id, date |-> date, status |-> "FT",
      ltype |-> Str_League, lname |-> Str_SerieA,
      home |-> 1, away |-> 2, gh |-> 2, ga |-> 1 ]

\* kickoff a whole day before the clock starts, written in UTC
Past == IsoDate(0 - 24, "Z")

\* fixtures that differ in id and in the way their kickoff is written:
\* 00:00Z (instant 0), 00:00-01:00 (instant 1), 01:00+00:00 (instant 1)
OrderingFixtures ==
    { Official(id, date) :
        id \in 1..3,
        date \in { IsoDate(0, "Z"), IsoDate(0, "-01:00"), IsoDate(1, "+00:00") } }

\* the status codes of the provider that are not final
NON_FINAL_STATUSES ==
    { "NS", "TBD", "PST", "CANC", "ABD", "SUSP", "INT",
      "1H", "HT", "2H", "ET", "BT", "P" }

\* a match that carries both goal counts under status code s
WithStatus(id, s) == [Official(id, Past) EXCEPT !.status = s]

\* fixtures that differ in the validation they fail
MixedFixtures ==
    { Official(1, Past), Official(2, Past),
      WithStatus(1, "AET"), WithStatus(2, "PEN"),
      WithStatus(1, "NS"), WithStatus(2, "HT"),
      [Official(1, Past) EXCEPT !.home = 3, !.away = 4],
      [Official(2, Past) EXCEPT !.home = 3],
      [Official(1, Past) EXCEPT !.away = None],
      [Official(1, Past) EXCEPT !.gh = None],
      [Official(1, Past) EXCEPT !.ltype = Str_Friendly],
      [Official(1, Past) EXCEPT !.lname = Str_CharityShield],
      [Official(1, Past) EXCEPT !.lname = NullStr],
      [Official(1, Past) EXCEPT !.date = EmptyDate],
      [Official(1, Past) EXCEPT !.date = GarbageDate],
      [Official(1, Past) EXCEPT !.date = IsoDate(0 - 24, "")],
      [Official(1, Past) EXCEPT !.date = IsoDate(1, "Z")],
      [Official(None, Past) EXCEPT !.status = "NS"] }

\* every batch of at most len fixtures of a universe
Batches(universe, len) == UNION { [1..k -> universe] : k \in 0..len }

\* one match per non-final status code, alone and before an official match
StatusBatches ==
    UNION { { << WithStatus(1, s) >>, << WithStatus(1, s), Official(2, Past) >> } :
            s \in NON_FINAL_STATUSES }

\* batches whose i-th fixture has id i and is either an official finished
\* match or a match not started
LongBatches ==
    UNION { { [i \in 1..k |-> IF i \in unfinished
                              THEN WithStatus(i, "NS")
                              ELSE Official(i, Past)] :
              unfinished \in SUBSET (1..k) } :
            k \in 0..MaxLong }

\* the ways a record of the friendly specification departs from an official
\* match: a friendly league type, a league name with a keyword in capitals,
\* a league name with no keyword, a friendly between two other teams
FRIENDLY_KINDS ==
    { "friendly_type", "charity_name", "friendlies_name", "other_teams_friendly" }

\* the record with id i of the given kind
OfKind(i, kind) ==
    CASE kind = "friendly_type" -> [Official(i, Past) EXCEPT !.ltype = Str_Friendly]
      [] kind = "charity_name" -> [Official(i, Past) EXCEPT !.lname = Str_CharityShield]
      [] kind = "friendlies_name" ->
             [Official(i, Past) EXCEPT !.lname = Str_ClubFriendlies]
      [] kind = "other_teams_friendly" ->
             [Official(i, Past) EXCEPT !.ltype = Str_Friendly, !.home = 3, !.away = 4]
      [] OTHER -> Official(i, Past)

\* the batch of MaxFriendlyBatch otherwise valid records, ids in order, whose
\* records at the positions of kinds are of the kind given there
FriendlyBatch(kinds) ==
    [ i \in 1..MaxFriendlyBatch |->
        IF i \in DOMAIN kinds THEN OfKind(i, kinds[i]) ELSE Official(i, Past) ]

\* the choices of at most MaxFriendly positions
FriendlyPositions ==
    { S \in SUBSET (1..MaxFriendlyBatch) : Cardinality(S) <= MaxFriendly }

\* a finished match of team 1 against team 2 with the given score
Scored(home, gh, ga) ==
    [Official(1, Past) EXCEPT !.home = home, !.away = 3 - home,
                              !.gh = gh, !.ga = ga]

ScoredFixtures ==
    { Scored(home, gh, ga) : home \in TeamIds, gh \in 0..MaxGoals, ga \in 0..MaxGoals }

\* the fixture lists of at most len scored matches, ids 1..k in order
FixtureSets(len) ==
    UNION { { [i \in 1..k |-> [list[i] EXCEPT !.id = i]] :
              list \in [1..k -> ScoredFixtures] } :
            k \in 0..len }

\* a match of team 1 at home whose goals the provider left null
Unscored == [Official(1, Past) EXCEPT !.gh = None, !.ga = None]

\* score lines (home goals, away goals) with match totals 0 to 4
SCORE_LINES == { << 0, 0 >>, << 1, 0 >>, << 1, 1 >>, << 1, 2 >>, << 2, 2 >> }

\* the records handed to the aggregator: team 1 at home or away with one of
\* the score lines, or the unscored match
AggregatorFixtures ==
    { Scored(home, score[1], score[2]) : home \in TeamIds, score \in SCORE_LINES }
      \cup { Unscored }

\* the fixture lists handed to the aggregator: at most len records, ids
\* 1..k in order
AggregatorLists(len) ==
    UNION { { [i \in 1..k |-> [list[i] EXCEPT !.id = i]] :
              list \in [1..k -> AggregatorFixtures] } :
            k \in 0..len }

\* the real-valued keys of a stats dict
REAL_KEYS ==
    { "over_0_5_pct", "over_1_5_pct", "over_2_5_pct", "over_3_5_pct",
      "btts_pct", "win_rate_pct", "draw_rate_pct", "loss_rate_pct",
      "clean_sheet_pct", "failed_to_score_pct",
      "avg_goals_for", "avg_goals_against", "avg_total_goals_per_match",
      "over_2_5", "over_1_5", "btts", "win_rate", "clean_sheet_rate",
      "failed_to_score_rate", "avg_total_goals" }

\* the amounts, in halves, by which a claimed value is off: 10 and 0.5
DELTAS == { 0 - 20, 0 - 1, 1, 20 }

\* stats with the value under key moved by halves / 2
Perturbed(stats, key, halves) ==
    [stats EXCEPT ![key] = Frac(2 * @.num + halves * @.den, 2 * @.den)]

\* the stats dicts a caller can claim for a fixture list: the computed one,
\* or the computed one with one value off
ClaimedStats(fixtures, team) ==
    LET computed == calculate_stats(fixtures, team)
    IN  { computed }
          \cup { Perturbed(computed, key, halves) : key \in REAL_KEYS, halves \in DELTAS }

\* the form strings a caller can claim: the computed one, or the computed
\* one with a symbol in front
ClaimedForms(fixtures, team) ==
    LET computed == get_form_string(fixtures, team, FORM_WINDOW)
    IN  { computed, << "V" >> \o computed }

\* the batches the provider returns to the chat flow: k official finished
\* matches of teams 1 and 2, or one of them not started
ChatBatches ==
    { [i \in 1..k |-> Official(i, Past)] : k \in {0, 1, 4, 5, 6} }
      \cup { [i \in 1..5 |-> IF i = 3 THEN WithStatus(i, "NS") ELSE Official(i, Past)] }

\* the chat requests in flight
Requests == {"req_1", "req_2"}

\* ChatBot.PLAN_LIMITS
PLAN_LIMITS == [free |-> 5, pro |-> 25, elite |-> 100]

\* a request not yet received.  analysed lists, per team, the fixtures whose
\* statistics the response shows; reports lists the reports the request
\* obtained from validate_stats_consistency.  Neither _analyze_match nor
\* _analyze_team calls that function, so no step of a request adds a report.
IdleRequest ==
    [ pc |-> "idle", fixtures_a_raw |-> << >>, response |-> "",
      analysed |-> << >>, reports |-> << >> ]

\* ------------------------------------------------------------------------
\* TeamResolver: names and contexts as sequences of characters
\* ------------------------------------------------------------------------
\* TeamResolver.BRAZIL_INDICATORS
BRAZIL_INDICATORS == {
    << "m", "g" >>, << "s", "p" >>, << "r", "j" >>, << "r", "s" >>,
    << "p", "r" >>, << "s", "c" >>, << "b", "a" >>, << "c", "e" >>,
    << "p", "e" >>, << "p", "a" >>, << "g", "o" >>, << "m", "t" >>,
    << "m", "s" >>, << "d", "f" >>, << "m", "i", "n", "e", "i", "r", "o" >>,
    << "p", "a", "u", "l", "i", "s", "t", "a" >>,
    << "c", "a", "r", "i", "o", "c", "a" >>,
    << "g", "a", "u", "c", "h", "o" >>,
    << "p", "a", "r", "a", "n", "a", "e", "n", "s", "e" >>,
    << "c", "a", "t", "a", "r", "i", "n", "e", "n", "s", "e" >>,
    << "b", "a", "i", "a", "n", "o" >>,
    << "b", "r", "a", "s", "i", "l", "e", "i", "r", "o" >>,
    << "b", "r", "a", "s", "i", "l", "e", "i", "r", "a", "o" >>,
    << "s", "e", "r", "i", "e", " ", "a" >>,
    << "s", "e", "r", "i", "e", " ", "b" >>,
    << "c", "o", "p", "a", " ", "d", "o", " ", "b", "r", "a", "s", "i", "l" >>,
    << "g", "a", "l", "o" >>, << "m", "e", "n", "g", "a", "o" >>,
    << "t", "i", "m", "a", "o" >>, << "v", "e", "r", "d", "a", "o" >>,
    << "p", "e", "i", "x", "e" >>,
    << "c", "o", "l", "o", "r", "a", "d", "o" >>,
    << "f", "u", "r", "a", "c", "a", "o" >>,
    << "t", "r", "i", "c", "o", "l", "o", "r" >> }

\* TeamResolver.EUROPEAN_CONFLICTS: the keys in dict order, each with its
\* options
EUROPEAN_CONFLICTS == <<
    [ key |-> << "a", "t", "l", "e", "t", "i", "c", "o" >>,
      options |-> << "Atletico Madrid", "Atletico-MG", "Athletico-PR" >> ],
    [ key |-> << "s", "p", "o", "r", "t", "i", "n", "g" >>,
      options |-> << "Sporting CP", "Sporting Braga", "Sporting Gijon" >> ],
    [ key |-> << "i", "n", "t", "e", "r" >>,
      options |-> << "Inter", "Internacional" >> ],
    [ key |-> << "v", "i", "t", "o", "r", "i", "a" >>,
      options |-> << "Vitoria", "Vitoria Guimaraes", "Vitoria Setubal" >> ],
    [ key |-> << "b", "r", "a", "g", "a" >>,
      options |-> << "SC Braga", "Sporting Braga" >> ] >>

\* the indicators resolve looks for before it flags an ambiguous name
EUROPEAN_INDICATORS == {
    << "m", "a", "d", "r", "i", "d" >>,
    << "e", "s", "p", "a", "n", "h", "a" >>, << "s", "p", "a", "i", "n" >>,
    << "l", "a", " ", "l", "i", "g", "a" >> }

\* re.sub(r'\s+', ' ', text).strip() on the characters from the i-th on,
\* acc being the text kept so far
RECURSIVE CollapseSpaces(_, _, _)
CollapseSpaces(text, i, acc) ==
    IF i > Len(text)
    THEN IF acc # << >> /\ acc[Len(acc)] = " " THEN SubSeq(acc, 1, Len(acc) - 1) ELSE acc
    ELSE CollapseSpaces(text, i + 1,
             IF text[i] = " " /\ (acc = << >> \/ acc[Len(acc)] = " ")
             THEN acc ELSE Append(acc, text[i]))

\* TeamResolver._normalize: lower case, punctuation and hyphens to spaces,
\* spaces collapsed.  The names of the model carry no accent and none of
\* the suffix words (fc, sc, ac, ec, club), so those two steps change nothing.
normalize(text) ==
    LET WordChars ==
            { LowerAlphabet[i] : i \in DOMAIN LowerAlphabet }
              \cup { "0", "1", "2", "3", "4", "5", "6", "7", "8", "9", "_" }
        lowered == Lower(text)
        spaced == [i \in DOMAIN lowered |->
                     IF lowered[i] \in WordChars THEN lowered[i] ELSE " "]
    IN  CollapseSpaces(spaced, 1, << >>)

\* TeamResolver._detect_brazil_context
detect_brazil_context(text) ==
    \E indicator \in BRAZIL_INDICATORS : Contains(normalize(text), indicator)

\* TeamResolver._is_ambiguous: the options of the first key the normalized
\* name equals or starts with, followed by a space; << >> is None
is_ambiguous(normalized) ==
    LET hits == { k \in DOMAIN EUROPEAN_CONFLICTS :
                    LET key == EUROPEAN_CONFLICTS[k].key
                    IN  \/ normalized = key
                        \/ /\ Len(normalized) > Len(key)
                           /\ SubSeq(normalized, 1, Len(key) + 1) = key \o << " " >> }
    IN  IF hits = { } THEN << >>
        ELSE EUROPEAN_CONFLICTS[CHOOSE k \in hits : \A h \in hits : k <= h].options

\* the names handed to resolve_match
NAMES == {
    << "i", "n", "t", "e", "r" >>,
    << "m", "i", "l", "a", "n" >>,
    << "s", "p", "o", "r", "t", "i", "n", "g" >>,
    << "s", "a", "n", "t", "o", "s" >> }

\* the context resolve_match hands to both calls of resolve
MatchContext(team1_name, team2_name) == team1_name \o << " " >> \o team2_name

\* the names and contexts handed to resolve: by a caller of resolve, or by
\* resolve_match for the first and the second name of a pair
QUERIES ==
    { [ team_name |-> names[i], context |-> MatchContext(names[1], names[2]) ] :
        names \in NAMES \X NAMES, i \in { 1, 2 } } \cup {
    [ team_name |-> << "i", "n", "t", "e", "r" >>,
      context |-> << >> ],
    [ team_name |-> << "I", "n", "t", "e", "r" >>,
      context |-> << "R", "S" >> ],
    [ team_name |-> << "i", "n", "t", "e", "r", " ", "m", "i", "l", "a", "n" >>,
      context |-> << >> ],
    [ team_name |-> << "A", "t", "l", "e", "t", "i", "c", "o", "-", "M", "G" >>,
      context |-> << >> ],
    [ team_name |-> << "a", "t", "l", "e", "t", "i", "c", "o" >>,
      context |-> << "m", "a", "d", "r", "i", "d" >> ],
    [ team_name |-> << "s", "p", "o", "r", "t", "i", "n", "g" >>,
      context |-> << >> ],
    [ team_name |-> << "i", "n", "t", "e", "r" >>,
      context |-> << "s", "p", "a", "i", "n" >> ],
    [ team_name |-> << "s", "a", "n", "t", "o", "s" >>,
      context |-> << >> ],
    [ team_name |-> << "s", "a", "n", "t", "o", "s" >>,
      context |-> << "s", "p" >> ],
    [ team_name |-> << "i", "n", "t", "e", "r", "n", "a", "c", "i", "o", "n", "a", "l" >>,
      context |-> << >> ] }

\* what the first lines of resolve compute from team_name and context,
\* tabulated over QUERIES
ResolveContext ==
    [ query \in QUERIES |->
        LET full_context == Lower(query.team_name \o << " " >> \o query.context)
        IN  [ normalized |-> normalize(query.team_name),
              full_context |-> full_context,
              prefer_brazil |-> detect_brazil_context(full_context),
              ambiguous_options |-> is_ambiguous(normalize(query.team_name)),
              european_context |->
                  \E ind \in EUROPEAN_INDICATORS : Contains(full_context, ind) ] ]

\* the similarities of the name to the keys of the local tables
KeyScores(len) == UNION { [1..k -> SIMILARITIES] : k \in 0..len }

\* the lists of at most len teams the remote search returns, ids 1..k in
\* order, each of Brazil or of Spain
SearchResults(len) ==
    UNION { { [i \in 1..k |-> [id |-> i, similarity |-> list[i].similarity,
                               country |-> list[i].country]] :
              list \in [1..k -> [similarity : SIMILARITIES, country : { "Brazil", "Spain" }]] } :
            k \in 0..len }

\* no name handed to the resolver; api is self.api
IdleResolution(api) ==
    [ pc |-> "idle", api |-> api, team_name |-> << >>, context |-> << >>,
      ambiguous_options |-> << >>,
      european_context |-> FALSE, prefer_brazil |-> FALSE,
      local_result |-> NoLocalResult, result |-> << >> ]

\* ------------------------------------------------------------------------
\* Actions
\* ------------------------------------------------------------------------
\* the wall clock advances
Tick ==
    /\ now < MaxNow
    /\ now' = now + 1
    /\ UNCHANGED << validator_vars, team_id, checker_vars,
                    chat_vars, resolver_vars >>

\* caller c runs get_last_team_fixtures on the batch (the function has no
\* await: it runs to completion at the current clock)
GetLastTeamFixtures(c) ==
    /\ result' = [result EXCEPT ![c] =
                    get_last_team_fixtures(raw_fixtures, team_id, n, now)]
    /\ called_at' = [called_at EXCEPT ![c] = now]
    /\ UNCHANGED << raw_fixtures, team_id, n, now, checker_vars,
                    chat_vars, resolver_vars >>

\* one caller validates the batch, any number of times
Validate == GetLastTeamFixtures("user_a")

\* two callers validate the same batch, each at its own times
ValidateAny == \E c \in Callers : GetLastTeamFixtures(c)

\* the consistency checker is applied to the claimed statistics and form
Check ==
    /\ report = << >>
    /\ report' = << validate_stats_consistency(fixture_set, claimed_stats,
                                               claimed_form, team_id) >>
    /\ UNCHANGED << validator_vars, team_id, now, fixture_set, claimed_stats,
                    claimed_form, window, aggregate,
                    chat_vars, resolver_vars >>

\* the aggregator is applied to the fixture list: calculate_stats, then
\* get_form_string over the first window records
Aggregate ==
    /\ aggregate = << >>
    /\ aggregate' = << [ stats |-> calculate_stats(fixture_set, team_id),
                         form |-> get_form_string(fixture_set, team_id, window) ] >>
    /\ UNCHANGED << validator_vars, team_id, now, fixture_set, claimed_stats,
                    claimed_form, report, window, chat_vars, resolver_vars >>

\* ChatBot._has_remaining_quota
has_remaining_quota == usage < PLAN_LIMITS[plan]

\* request r returns with a response
Return(r, response, analysed) ==
    req' = [req EXCEPT ![r] = [ pc |-> "done", fixtures_a_raw |-> << >>,
                                response |-> response, analysed |-> analysed,
                                reports |-> @.reports ]]

\* request r moves on to its next await
Goto(r, pc) == req' = [req EXCEPT ![r].pc = pc]

\* ChatBot.process_message up to its first await: the quota check, the
\* commands and the parse of the input, whose kind is
\*   "help"       a help command
\*   "match"      two team names were extracted
\*   "team"       one team name was extracted
\*   "ambiguous"  the LLM extraction asks which team is meant
\*   "none"       no team name was found
ProcessMessage(r, input) ==
    /\ req[r].pc = "idle"
    /\ IF ~has_remaining_quota THEN Return(r, "limit_reached", << >>)
       ELSE IF input = "help" THEN Return(r, "help", << >>)
       ELSE IF input = "match" THEN Goto(r, "resolve_match")
       ELSE IF input = "team" THEN Goto(r, "resolve_team")
       ELSE IF input = "ambiguous" THEN Return(r, "disambiguation_question", << >>)
       ELSE Return(r, "friendly_fallback", << >>)
    /\ UNCHANGED << validator_vars, team_id, now, checker_vars, plan,
                    usage, resolver_vars >>

Receive == \E r \in Requests, input \in {"help", "match", "team", "ambiguous", "none"} :
              ProcessMessage(r, input)

\* ChatBot._analyze_match, STEP 1: team_resolver.resolve_match returns
AnalyzeMatchResolved(r, match_result) ==
    /\ req[r].pc = "resolve_match"
    /\ IF match_result = "ambiguous" THEN Return(r, "ambiguous_teams", << >>)
       ELSE IF match_result # "success" THEN Return(r, "team_not_found", << >>)
       ELSE Goto(r, "fetch_a")
    /\ UNCHANGED << validator_vars, team_id, now, checker_vars, plan,
                    usage, resolver_vars >>

ResolveMatch == \E r \in Requests, match_result \in {"ambiguous", "failed", "success"} :
                   AnalyzeMatchResolved(r, match_result)

\* ChatBot._analyze_match, STEP 2: the fixtures of team A arrive
AnalyzeMatchFetchedA(r, batch) ==
    /\ req[r].pc = "fetch_a"
    /\ req' = [req EXCEPT ![r].pc = "fetch_b", ![r].fixtures_a_raw = batch]
    /\ UNCHANGED << validator_vars, team_id, now, checker_vars, plan,
                    usage, resolver_vars >>

FetchA == \E r \in Requests, batch \in ChatBatches : AnalyzeMatchFetchedA(r, batch)

\* ChatBot._consume_quota: the usage after the call
consume_quota == IF usage >= PLAN_LIMITS[plan] THEN usage ELSE usage + 1

\* fixed sample size of the match analysis
REQUIRED_GAMES == 10

\* ChatBot._analyze_match, STEPS 2 to 5 after the fixtures of team B
\* arrive: both batches are validated, the analysis is generated from the
\* statistics of the two validated lists, and the quota is consumed.  Team
\* A is team 1, team B is team 2.  An exception is caught by
\* process_message, which answers with the friendly fallback.
AnalyzeMatchFetchedB(r, batch) ==
    /\ req[r].pc = "fetch_b"
    /\ LET validated_a == validate_fixtures(req[r].fixtures_a_raw, 1, REQUIRED_GAMES, now)
           validated_b == validate_fixtures(batch, 2, REQUIRED_GAMES, now)
       IN  IF validated_a.raised \/ validated_b.raised
           THEN Return(r, "friendly_fallback", << >>) /\ usage' = usage
           ELSE IF ~validated_a.valid \/ ~validated_b.valid
           THEN Return(r, "data_error", << >>) /\ usage' = usage
           ELSE /\ Return(r, "match_analysis",
                          << [team |-> 1, fixtures |-> validated_a.fixtures],
                             [team |-> 2, fixtures |-> validated_b.fixtures] >>)
                /\ usage' = consume_quota
    /\ UNCHANGED << validator_vars, team_id, now, checker_vars,
                    plan, resolver_vars >>

FetchB == \E r \in Requests, batch \in ChatBatches : AnalyzeMatchFetchedB(r, batch)

\* ChatBot._analyze_team: api.resolve_team returns
AnalyzeTeamResolved(r, found) ==
    /\ req[r].pc = "resolve_team"
    /\ IF ~found THEN Return(r, "team_not_found", << >>) ELSE Goto(r, "fetch_team")
    /\ UNCHANGED << validator_vars, team_id, now, checker_vars, plan,
                    usage, resolver_vars >>

ResolveTeam == \E r \in Requests, found \in BOOLEAN : AnalyzeTeamResolved(r, found)

\* list[-n:] for n > 0
TakeLast(list, k) == SubSeq(list, Len(list) - Min(k, Len(list)) + 1, Len(list))

\* sample size of the team analysis (parsed["n"])
TEAM_GAMES == 10

\* ChatBot._analyze_team after the fixtures arrive: venue "all" keeps every
\* fixture, the last n are kept, and _generate_team_analysis answers with
\* the statistics unless the list is empty
AnalyzeTeamFetched(r, batch) ==
    /\ req[r].pc = "fetch_team"
    /\ LET filtered == TakeLast(batch, TEAM_GAMES)
       IN  IF filtered = << >>
           THEN Return(r, "insufficient_data", << >>)
           ELSE Return(r, "team_analysis", << [team |-> 1, fixtures |-> filtered] >>)
    /\ UNCHANGED << validator_vars, team_id, now, checker_vars, plan,
                    usage, resolver_vars >>

FetchTeam == \E r \in Requests, batch \in ChatBatches : AnalyzeTeamFetched(r, batch)

\* TeamResolver.resolve up to the await of search_teams: the ambiguity
\* check, stage 1, and without an api stage 3.  found is what the first
\* lines computed from the name and the context; the value is where the
\* call stands: returned ("done") or awaiting the search ("searching")
resolve_start(found, exact, key_scores, api) ==
    LET local_result == resolve_local(exact, key_scores, found.prefer_brazil)
        stopped == /\ found.ambiguous_options # << >>
                   /\ ~found.prefer_brazil
                   /\ ~found.european_context
        returned(value) ==
            [ pc |-> "done", result |-> << value >>,
              local_result |-> IF stopped THEN NoLocalResult ELSE local_result ]
    IN  IF stopped
        THEN returned(Unresolved(0, "ambiguous_name", TRUE, found.ambiguous_options))
        ELSE IF local_result.found /\ local_result.confidence >= LOCAL_ACCEPT
        THEN returned(Resolved(local_result.id, local_result.confidence, "local"))
        ELSE IF api
        THEN [ pc |-> "searching", result |-> << >>, local_result |-> local_result ]
        ELSE returned(resolve_fallback(local_result))

\* TeamResolver.resolve after search_teams returned api_results or raised
resolve_finish(local_result, prefer_brazil, raised, api_results) ==
    IF raised
    THEN resolve_fallback(local_result)
    ELSE resolve_api(api_results, prefer_brazil, local_result)

\* TeamResolver.resolve from call to return.  lookup is what the tables
\* and the remote search hold for the name: exact and key_scores for
\* resolve_local, raised and api_results for search_teams
resolve(found, lookup, api) ==
    LET started == resolve_start(found, lookup.exact, lookup.key_scores, api)
    IN  IF started.pc = "done"
        THEN started.result[1]
        ELSE resolve_finish(started.local_result, found.prefer_brazil,
                            lookup.raised, lookup.api_results)

\* resolve_match that asks only the first result for ambiguity
resolve_match_FirstOnly(team1_name, team2_name, result1, result2) ==
    [ success |-> ~result1.ambiguous /\ result1.success /\ result2.success,
      team1 |-> result1, team2 |-> result2,
      confidence |-> IF ~result1.ambiguous /\ result1.success /\ result2.success
                     THEN Frac(result1.confidence + result2.confidence, 2)
                     ELSE Frac(0, 1),
      ambiguous |-> result1.ambiguous,
      suggestions |-> IF result1.ambiguous
                      THEN [i \in DOMAIN result1.suggestions |->
                              [team |-> 1, suggestion |-> result1.suggestions[i]]]
                      ELSE << >>,
      failed |-> IF result1.ambiguous \/ (result1.success /\ result2.success)
                 THEN << >>
                 ELSE (IF result1.success THEN << >> ELSE << team1_name >>)
                        \o (IF result2.success THEN << >> ELSE << team2_name >>) ]

\* TeamResolver.resolve_match after both calls of resolve returned.  The
\* message is kept as its parts: suggestions are the lines listed after an
\* ambiguity, each tagged with the position of its team, failed the names
\* listed after a failure
resolve_match(team1_name, team2_name, result1, result2) ==
    LET tagged(single, position) ==
            IF single.ambiguous
            THEN [i \in DOMAIN single.suggestions |->
                    [team |-> position, suggestion |-> single.suggestions[i]]]
            ELSE << >>
    IN
    IF result1.ambiguous \/ result2.ambiguous
    THEN [ success |-> FALSE, team1 |-> result1, team2 |-> result2,
           confidence |-> Frac(0, 1), ambiguous |-> TRUE,
           suggestions |-> Take(tagged(result1, 1) \o tagged(result2, 2),
                                MESSAGE_LIMIT),
           failed |-> << >> ]
    ELSE IF ~result1.success \/ ~result2.success
    THEN [ success |-> FALSE, team1 |-> result1, team2 |-> result2,
           confidence |-> Frac(0, 1), ambiguous |-> FALSE,
           suggestions |-> << >>,
           failed |-> (IF result1.success THEN << >> ELSE << team1_name >>)
                        \o (IF result2.success THEN << >> ELSE << team2_name >>) ]
    ELSE [ success |-> TRUE, team1 |-> result1, team2 |-> result2,
           confidence |-> Frac(result1.confidence + result2.confidence, 2),
           ambiguous |-> FALSE, suggestions |-> << >>, failed |-> << >> ]

\* what the tables and the remote search hold for one name of a pair: at
\* most one key near the name and at most one team found
LOOKUPS ==
    { lookup \in [ exact : BOOLEAN, key_scores : KeyScores(1),
                   raised : BOOLEAN, api_results : SearchResults(1) ] :
        lookup.raised => lookup.api_results = << >> }

\* resolve_match is called with two names; the first call of resolve returns
ResolveFirst ==
    /\ pair.pc = "idle"
    /\ \E team1_name \in NAMES, team2_name \in NAMES, lookup \in LOOKUPS :
          LET context == MatchContext(team1_name, team2_name)
              found == ResolveContext[[team_name |-> team1_name, context |-> context]]
          IN  pair' = [ pc |-> "second",
                        team1_name |-> team1_name, team2_name |-> team2_name,
                        lookup1 |-> lookup,
                        result1 |-> resolve(found, lookup, resolution.api) ]
    /\ UNCHANGED << validator_vars, team_id, now, checker_vars, chat_vars,
                    resolution, index >>

\* the second call of resolve returns and resolve_match combines the two
ResolveSecond ==
    /\ pair.pc = "second"
    /\ \E lookup \in LOOKUPS :
          LET context == MatchContext(pair.team1_name, pair.team2_name)
              found == ResolveContext[[team_name |-> pair.team2_name,
                                       context |-> context]]
              result2 == resolve(found, lookup, resolution.api)
          IN  pair' = [ pc |-> "done",
                        team1_name |-> pair.team1_name,
                        team2_name |-> pair.team2_name,
                        lookup1 |-> pair.lookup1,
                        result1 |-> pair.result1,
                        result2 |-> result2,
                        result |-> resolve_match(pair.team1_name, pair.team2_name,
                                                 pair.result1, result2) ]
    /\ UNCHANGED << validator_vars, team_id, now, checker_vars, chat_vars,
                    resolution, index >>

\* resolve is called with a name and a context and runs up to its return
\* or to the await of search_teams
ResolveName ==
    /\ resolution.pc = "idle"
    /\ \E query \in QUERIES, exact \in BOOLEAN, key_scores \in KeyScores(MaxKeys) :
          LET found == ResolveContext[query]
              started == resolve_start(found, exact, key_scores, resolution.api)
          IN  resolution' = [resolution EXCEPT
                               !.pc = started.pc,
                               !.team_name = query.team_name,
                               !.context = query.context,
                               !.ambiguous_options = found.ambiguous_options,
                               !.european_context = found.european_context,
                               !.prefer_brazil = found.prefer_brazil,
                               !.local_result = started.local_result,
                               !.result = started.result]
    /\ UNCHANGED << validator_vars, team_id, now, checker_vars, chat_vars, pair,
                    index >>

\* search_teams returns or raises, and resolve goes on from stage 2
SearchReturns ==
    /\ resolution.pc = "searching"
    /\ \E raised \in BOOLEAN, api_results \in SearchResults(MaxCandidates) :
          /\ raised => api_results = << >>
          /\ resolution' = [resolution EXCEPT
                !.pc = "done",
                !.result = << resolve_finish(resolution.local_result,
                                             resolution.prefer_brazil,
                                             raised, api_results) >>]
    /\ UNCHANGED << validator_vars, team_id, now, checker_vars, chat_vars, pair,
                    index >>

\* GlobalIndex.initialize up to the first request of _load_teams (the
\* requests of _load_leagues do not touch the team table).  With a valid
\* cache it returns at once; without an api nothing is loaded and the
\* timestamp is set
Initialize ==
    /\ index.pc = "idle"
    /\ LET is_cache_valid ==
               /\ index.cache_timestamp # << >>
               /\ now - index.cache_timestamp[1] < CACHE_TTL
           responses ==
               { [raises |-> TRUE, teams |-> << >>],
                 [raises |-> FALSE, teams |-> << >>] }
                 \cup { [raises |-> FALSE,
                         teams |-> << [id |-> id, name |-> name, logo |-> "new"] >>] :
                         id \in { None, 1, 2 }, name \in DOMAIN index.teams_by_name }
       IN  /\ ~is_cache_valid
           /\ IF index.api
              THEN \E answers \in [1..MaxLeagues -> responses] :
                      index' = [index EXCEPT !.pc = "loading", !.league_id = 1,
                                             !.before = index.teams_by_name,
                                             !.responses = answers]
              ELSE index' = [index EXCEPT !.cache_timestamp = << now >>,
                                          !.before = index.teams_by_name,
                                          !.responses = << >>]
    /\ UNCHANGED << validator_vars, team_id, now, checker_vars, chat_vars,
                    resolution, pair >>

\* GlobalIndex._load_teams resumes: the request for the next league has
\* returned and its teams are written into the table, or every league is
\* done and initialize sets the timestamp
LoadTeams ==
    /\ index.pc = "loading"
    /\ IF index.league_id <= MaxLeagues
       THEN index' = [index EXCEPT
                        !.teams_by_name =
                            LoadLeague(@, index.league_id,
                                       index.responses[index.league_id], 1),
                        !.league_id = @ + 1]
       ELSE index' = [index EXCEPT !.pc = "idle", !.cache_timestamp = << now >>]
    /\ UNCHANGED << validator_vars, team_id, now, checker_vars, chat_vars,
                    resolution, pair >>

\* GlobalIndex.search_team reads the table (the exact lookup and the fuzzy
\* loop run without an await between them)
SearchTeam ==
    /\ index.observed = << >>
    /\ index' = [index EXCEPT !.observed = << index.teams_by_name >>]
    /\ UNCHANGED << validator_vars, team_id, now, checker_vars, chat_vars,
                    resolution, pair >>

\* no call made yet
NoCalls ==
    /\ result = [c \in Callers |-> get_last_team_fixtures(<< >>, 0, 0, 0)]
    /\ called_at = [c \in Callers |-> None]

\* nothing handed to the consistency checker
NoCheck ==
    /\ fixture_set = << >>
    /\ claimed_stats = empty_stats
    /\ claimed_form = << >>
    /\ report = << >>
    /\ window = FORM_WINDOW
    /\ aggregate = << >>

\* no name handed to the resolver of the chat bot, which has an api
NoResolve ==
    /\ resolution = IdleResolution(TRUE)
    /\ pair = [pc |-> "idle"]
    /\ index = NewIndex(TRUE)

\* no chat request received
NoChat ==
    /\ plan = "free"
    /\ usage = 0
    /\ req = [r \in Requests |-> IdleRequest]

\* Ordering specification: batches of official finished matches that differ
\* in id and kickoff string
Init ==
    /\ raw_fixtures \in Batches(OrderingFixtures, MaxBatch)
    /\ team_id \in TeamIds
    /\ n \in 0..MaxN
    /\ now \in 0..MaxNow
    /\ NoCalls
    /\ NoResolve
    /\ NoCheck
    /\ NoChat

Next == Tick \/ Validate

Spec == Init /\ [][Next]_vars

\* Two callers on the batches of the ordering specification
NextCallers == Tick \/ ValidateAny

SpecCallers == Init /\ [][NextCallers]_vars

\* Filtering specification: batches of fixtures that fail different stages
InitFilter ==
    /\ raw_fixtures \in Batches(MixedFixtures, MaxMixed) \cup StatusBatches
    /\ team_id \in TeamIds
    /\ n \in 0..MaxN
    /\ now \in 0..MaxNow
    /\ NoCalls
    /\ NoResolve
    /\ NoCheck
    /\ NoChat

SpecFilter == InitFilter /\ [][Next]_vars

\* Validity specification: batches long enough to reach the minimum sample
InitValid ==
    /\ raw_fixtures \in LongBatches
    /\ team_id \in TeamIds
    /\ n \in 0..MaxRequested
    /\ now \in 0..MaxNow
    /\ NoCalls
    /\ NoResolve
    /\ NoCheck
    /\ NoChat

SpecValid == InitValid /\ [][Next]_vars

\* Friendly specification: batches of otherwise valid records with a few
\* friendlies, validated for team 1 with a request for the whole batch;
\* every kickoff is long past, so the clock stands still
InitFriendly ==
    /\ \E special \in FriendlyPositions :
          \E kinds \in [special -> FRIENDLY_KINDS] :
              raw_fixtures = FriendlyBatch(kinds)
    /\ team_id = 1
    /\ n = MaxFriendlyBatch
    /\ now = 0
    /\ NoCalls
    /\ NoResolve
    /\ NoCheck
    /\ NoChat

NextFriendly == Validate

SpecFriendly == InitFriendly /\ [][NextFriendly]_vars

\* Consistency specification: the checker applied to claimed statistics
InitCheck ==
    /\ fixture_set \in FixtureSets(MaxSet)
    /\ team_id \in TeamIds
    /\ claimed_stats \in ClaimedStats(fixture_set, team_id)
    /\ claimed_form \in ClaimedForms(fixture_set, team_id)
    /\ report = << >>
    /\ window = FORM_WINDOW
    /\ aggregate = << >>
    /\ raw_fixtures = << >> /\ n = 0 /\ now = 0
    /\ NoCalls
    /\ NoResolve
    /\ NoChat

NextCheck == Check

SpecCheck == InitCheck /\ [][NextCheck]_vars

\* Aggregator specification: calculate_stats and get_form_string applied to
\* a fixture list
InitStats ==
    /\ fixture_set \in AggregatorLists(MaxSet)
    /\ team_id \in TeamIds
    /\ window \in 0..MaxWindow
    /\ aggregate = << >>
    /\ claimed_stats = empty_stats /\ claimed_form = << >> /\ report = << >>
    /\ raw_fixtures = << >> /\ n = 0 /\ now = 0
    /\ NoCalls
    /\ NoResolve
    /\ NoChat

NextStats == Aggregate

SpecStats == InitStats /\ [][NextStats]_vars

\* Resolver specification: one name resolved by a resolver built with or
\* without an api
InitResolve ==
    /\ \E api \in BOOLEAN : resolution = IdleResolution(api)
    /\ pair = [pc |-> "idle"]
    /\ index = NewIndex(TRUE)
    /\ raw_fixtures = << >> /\ n = 0 /\ now = 0 /\ team_id = 1
    /\ NoCalls
    /\ NoCheck
    /\ NoChat

NextResolve == ResolveName \/ SearchReturns

SpecResolve == InitResolve /\ [][NextResolve]_vars

\* Pair specification: two names resolved by resolve_match
SpecMatch == InitResolve /\ [][ResolveFirst \/ ResolveSecond]_vars

\* Index specification: a new index, or one loaded before whose cache has
\* expired or is still valid, refreshed while a lookup runs
InitIndex ==
    /\ \E api \in BOOLEAN :
          \/ index = NewIndex(api)
          \/ \E loaded_at \in { 0 - CACHE_TTL, 0 } :
                index = [NewIndex(api) EXCEPT
                           !.cache_timestamp = << loaded_at >>,
                           !.teams_by_name =
                               [name \in DOMAIN @ |->
                                  [ id |-> IF name = "alpha" THEN 1 ELSE 2,
                                    name |-> name, logo |-> "old",
                                    league_id |-> IF name = "alpha" THEN 1 ELSE 2 ]],
                           !.before = 
                               [name \in DOMAIN @ |->
                                  [ id |-> IF name = "alpha" THEN 1 ELSE 2,
                                    name |-> name, logo |-> "old",
                                    league_id |-> IF name = "alpha" THEN 1 ELSE 2 ]]]
    /\ resolution = IdleResolution(TRUE)
    /\ pair = [pc |-> "idle"]
    /\ raw_fixtures = << >> /\ n = 0 /\ now = 0 /\ team_id = 1
    /\ NoCalls
    /\ NoCheck
    /\ NoChat

SpecIndex == InitIndex /\ [][Initialize \/ LoadTeams \/ SearchTeam]_vars

\* Chat specification: two requests of one user in flight
InitChat ==
    /\ plan \in DOMAIN PLAN_LIMITS
    /\ usage \in { 0, PLAN_LIMITS[plan] - 1, PLAN_LIMITS[plan] }
    /\ req = [r \in Requests |-> IdleRequest]
    /\ raw_fixtures = << >> /\ n = 0 /\ now = 0 /\ team_id = 1
    /\ NoCalls
    /\ NoResolve
    /\ NoCheck

NextChat ==
    \/ Receive
    \/ ResolveMatch
    \/ FetchA
    \/ FetchB
    \/ ResolveTeam
    \/ FetchTeam

SpecChat == InitChat /\ [][NextChat]_vars

\* ------------------------------------------------------------------------
\* Properties of the validator
\* ------------------------------------------------------------------------
\* caller c has made a call
Called(c) == called_at[c] # None

\* caller c has made a call and it returned (did not throw)
Returned(c) == Called(c) /\ ~result[c].raised

\* Index i of the raw batch holds a fixture that passes every validation of
\* a call made for team_id at time t
Survives(i, t) ==
    LET f == raw_fixtures[i]
    IN  /\ f.id # None
        /\ \A j \in 1..(i - 1) : raw_fixtures[j].id # f.id
        /\ team_id \in {f.home, f.away}
        /\ ~ExcludedType[f.ltype]
        /\ ~FriendlyName[f.lname]
        /\ f.date.kind = "iso" /\ f.date.sfx # ""
        /\ Instant(f.date) <= t
        /\ f.status \in {"FT", "AET", "PEN"}
        /\ f.gh # None /\ f.ga # None

Survivors(t) == { i \in 1..Len(raw_fixtures) : Survives(i, t) }

\* the members of a list
Range(list) == { list[i] : i \in 1..Len(list) }

\* C1: every invocation on the same batch, team id and n returns the same
\* fixture_ids list, whichever caller makes it and whenever
C1_SameIdsForEveryCall ==
    \A c1, c2 \in Callers :
        Called(c1) /\ Called(c2) => result[c1].fixture_ids = result[c2].fixture_ids

\* C4: in the returned fixtures the later instant comes first, and of two
\* fixtures at the same instant the larger id comes first
C4_LaterInstantFirst ==
    \A c \in Callers :
        Returned(c) =>
            \A i, j \in 1..Len(result[c].fixtures) :
                i < j =>
                    LET a == result[c].fixtures[i]
                        b == result[c].fixtures[j]
                    IN  \/ Instant(a.date) > Instant(b.date)
                        \/ Instant(a.date) = Instant(b.date) /\ a.id > b.id

\* C5: fixture_ids never holds the same id twice
C5_NoRepeatedIds ==
    \A c \in Callers :
        Returned(c) =>
            \A i, j \in 1..Len(result[c].fixture_ids) :
                i # j => result[c].fixture_ids[i] # result[c].fixture_ids[j]

\* a call on a batch that repeats an id returned that id
C5_Witness ==
    \E c \in Callers :
        /\ Returned(c)
        /\ \E i, j \in 1..Len(raw_fixtures) :
              /\ i < j
              /\ raw_fixtures[i].id = raw_fixtures[j].id
              /\ \E k \in 1..Len(result[c].fixture_ids) :
                    result[c].fixture_ids[k] = raw_fixtures[i].id

\* C6: every returned fixture has status FT, AET or PEN
C6_OnlyFinalStatuses ==
    \A c \in Callers :
        Returned(c) =>
            \A f \in Range(result[c].fixtures) : f.status \in {"FT", "AET", "PEN"}

\* a call rejected a fixture of the analysed team that carries both goal
\* counts under a non-final status, and returned another fixture
C6_Witness ==
    \E c \in Callers :
        /\ Returned(c)
        /\ result[c].fixtures # << >>
        /\ result[c].stats.excluded_unfinished > 0
        /\ \E i \in 1..Len(raw_fixtures) :
              /\ raw_fixtures[i].status \in NON_FINAL_STATUSES
              /\ raw_fixtures[i].gh # None /\ raw_fixtures[i].ga # None
              /\ team_id \in {raw_fixtures[i].home, raw_fixtures[i].away}

\* the fixtures that reach VALIDATION 2 and do not involve team_id
RejectedForTeam ==
    { i \in 1..Len(raw_fixtures) :
        /\ raw_fixtures[i].id # None
        /\ \A j \in 1..(i - 1) : raw_fixtures[j].id # raw_fixtures[i].id
        /\ team_id # raw_fixtures[i].home
        /\ team_id # raw_fixtures[i].away }

\* C7: every returned fixture has team_id as home or away id, and
\* excluded_team_not_in_fixture counts one per fixture rejected at that stage
C7_TeamInEveryFixture ==
    \A c \in Callers :
        Returned(c) =>
            /\ \A f \in Range(result[c].fixtures) : f.home = team_id \/ f.away = team_id
            /\ result[c].stats.excluded_team_not_in_fixture = Cardinality(RejectedForTeam)

\* a call rejected a fixture of other teams and returned one of team_id
\* played away
C7_Witness ==
    \E c \in Callers :
        /\ Returned(c)
        /\ result[c].stats.excluded_team_not_in_fixture > 0
        /\ \E f \in Range(result[c].fixtures) : f.away = team_id

\* the errors of a result that are of a kind
ErrorsOfKind(r, kind) == { e \in Range(r.errors) : e.kind = kind }

\* C8 as stated: valid iff at least 5 fixtures are returned; with at least 5
\* but fewer than n the result is valid with a fewer-than-requested notice;
\* with fewer than 5 it is invalid and errors names the minimum of 5
C8_ValidIffFive ==
    \A c \in Callers :
        Returned(c) =>
            LET r == result[c]
                k == Len(r.fixtures)
            IN  /\ r.valid <=> k >= 5
                /\ (k >= 5 /\ k < n) =>
                      r.valid /\ ErrorsOfKind(r, "fewer_than_requested") # {}
                /\ k < 5 =>
                      /\ ~r.valid
                      /\ \E e \in ErrorsOfKind(r, "below_minimum") : e.wanted = 5

\* C8 amended: as C8, but for an empty raw batch errors holds only the
\* no-fixtures-received notice
C8_ValidIffFive_NonEmptyBatch ==
    \A c \in Callers :
        Returned(c) =>
            LET r == result[c]
                k == Len(r.fixtures)
            IN  /\ r.valid <=> k >= 5
                /\ (k >= 5 /\ k < n) =>
                      r.valid /\ ErrorsOfKind(r, "fewer_than_requested") # {}
                /\ (k < 5 /\ raw_fixtures # << >>) =>
                      /\ ~r.valid
                      /\ \E e \in ErrorsOfKind(r, "below_minimum") : e.wanted = 5
                /\ raw_fixtures = << >> =>
                      ~r.valid /\ r.errors = << ErrNoFixtures >>

\* a call returned exactly 5 fixtures when more were requested
C8_Witness ==
    \E c \in Callers :
        /\ Returned(c)
        /\ Len(result[c].fixtures) = 5
        /\ n > 5
        /\ result[c].valid

\* C10: the returned fixtures are the first min(n, k) of the k survivors in
\* sorted order: min(n, k) of them, each a survivor, in descending key
\* order, and no omitted survivor ranks above a returned one
C10_FirstNOfSorted ==
    \A c \in Callers :
        Returned(c) =>
            LET r == result[c]
                S == Survivors(called_at[c])
            IN  /\ Len(r.fixtures) = Min(n, Cardinality(S))
                /\ \A f \in Range(r.fixtures) : \E i \in S : raw_fixtures[i] = f
                /\ \A i, j \in 1..Len(r.fixtures) :
                      i < j => KeyLess(r.fixtures[j], r.fixtures[i])
                /\ \A i \in S :
                      raw_fixtures[i] \notin Range(r.fixtures) =>
                          \A f \in Range(r.fixtures) : KeyLess(raw_fixtures[i], f)

\* a call truncated: more survivors than the n >= 1 requested
C10_Witness ==
    \E c \in Callers :
        /\ Returned(c)
        /\ n >= 1
        /\ Cardinality(Survivors(called_at[c])) > n
        /\ Len(result[c].fixtures) = n

\* the league type, lower-cased, is one of the friendly categories
TypeIsFriendlyCategory ==
    [ ltype \in LeagueTypes |-> Lower(ltype) \in EXCLUDED_TYPES ]

\* the league name contains a keyword of the list, whatever its case
NameHasFriendlyKeyword ==
    [ lname \in LeagueNames |->
        \E keyword \in FRIENDLY_KEYWORDS : Contains(Lower(lname), keyword) ]

\* the friendlies that reach the category stage: first of their id and
\* involving team_id
FriendliesAtCategoryStage ==
    { i \in 1..Len(raw_fixtures) :
        /\ raw_fixtures[i].id # None
        /\ \A j \in 1..(i - 1) : raw_fixtures[j].id # raw_fixtures[i].id
        /\ team_id \in {raw_fixtures[i].home, raw_fixtures[i].away}
        /\ raw_fixtures[i].ltype # NullStr /\ raw_fixtures[i].lname # NullStr
        /\ \/ TypeIsFriendlyCategory[raw_fixtures[i].ltype]
           \/ NameHasFriendlyKeyword[raw_fixtures[i].lname] }

\* C11: no returned record has a friendly league type or a league name
\* containing a keyword in any case, and excluded_friendlies counts one per
\* friendly that reaches the category stage
C11_FriendliesExcludedAndCounted ==
    \A c \in Callers :
        Returned(c) =>
            /\ \A f \in Range(result[c].fixtures) :
                  /\ ~TypeIsFriendlyCategory[f.ltype]
                  /\ ~NameHasFriendlyKeyword[f.lname]
            /\ result[c].stats.excluded_friendlies
                  = Cardinality(FriendliesAtCategoryStage)

\* of 10 records, 2 friendlies (one of them by a name in capitals), n = 10:
\* 8 records returned and excluded_friendlies = 2
C11_Witness ==
    \E c \in Callers :
        /\ Returned(c)
        /\ Len(raw_fixtures) = 10 /\ n = 10
        /\ \E i \in 1..Len(raw_fixtures) : raw_fixtures[i].lname = Str_CharityShield
        /\ Len(result[c].fixtures) = 8
        /\ result[c].stats.excluded_friendlies = 2

\* index i of the raw batch holds a record that reaches the temporal stage:
\* first of its id, involving team_id, no friendly
ReachesTemporalStage(i) ==
    LET f == raw_fixtures[i]
    IN  /\ f.id # None
        /\ \A j \in 1..(i - 1) : raw_fixtures[j].id # f.id
        /\ team_id \in {f.home, f.away}
        /\ f.ltype # NullStr /\ f.lname # NullStr
        /\ ~TypeIsFriendlyCategory[f.ltype]
        /\ ~NameHasFriendlyKeyword[f.lname]

\* the record passes the stages after the temporal one
PassesLaterStages(f) ==
    /\ f.status \in {"FT", "AET", "PEN"}
    /\ f.gh # None /\ f.ga # None

\* C12: a record that reaches the temporal stage (and would pass the later
\* ones, with room for it in the sample) is excluded exactly when its
\* timestamp is unparseable or its instant is strictly after the call time
C12_ExcludedIffUnparseableOrFuture ==
    \A c \in Callers :
        (Returned(c) /\ n >= Len(raw_fixtures)) =>
            \A i \in 1..Len(raw_fixtures) :
                LET f == raw_fixtures[i]
                IN  (ReachesTemporalStage(i) /\ PassesLaterStages(f)) =>
                        (f \notin Range(result[c].fixtures)
                           <=> (~Parses(f.date) \/ Instant(f.date) > called_at[c]))

\* C13: no returned record lacks its home team id or its away team id
C13_BothTeamIdsPresent ==
    \A c \in Callers :
        Returned(c) =>
            \A f \in Range(result[c].fixtures) : f.home # None /\ f.away # None

\* the sum of the excluded_* counters of a result
ExcludedTotal(r) ==
    r.stats.excluded_friendlies + r.stats.excluded_unfinished
      + r.stats.excluded_no_score + r.stats.excluded_team_not_in_fixture
      + r.stats.excluded_duplicates + r.stats.excluded_future

\* C14: total_raw is the number of survivors before truncation plus the sum
\* of the excluded_* counters, so every excluded record is counted once
C14_EveryExclusionCounted ==
    \A c \in Callers :
        Returned(c) =>
            result[c].stats.total_raw
              = Cardinality(Survivors(called_at[c])) + ExcludedTotal(result[c])

\* C15: no call of get_last_team_fixtures raises, whatever the records lack
C15_NeverRaises ==
    \A c \in Callers : Called(c) => ~result[c].raised

\* the positions of the batch that repeat the id of an earlier position
LaterOccurrences ==
    { i \in 1..Len(raw_fixtures) :
        /\ raw_fixtures[i].id # None
        /\ \E j \in 1..(i - 1) : raw_fixtures[j].id = raw_fixtures[i].id }

\* C26: of a fixture id that occurs more than once only the first
\* occurrence is considered: every later occurrence is counted in
\* excluded_duplicates and never returned, also when the first occurrence
\* is rejected by a later stage and a later one would have passed
C26_FirstOccurrenceWins ==
    \A c \in Callers :
        Returned(c) =>
            /\ result[c].stats.excluded_duplicates = Cardinality(LaterOccurrences)
            /\ \A k \in 1..Len(result[c].fixtures) :
                  \E i \in 1..Len(raw_fixtures) :
                      /\ i \notin LaterOccurrences
                      /\ raw_fixtures[i] = result[c].fixtures[k]
                      /\ \A j \in LaterOccurrences :
                            raw_fixtures[j].id = raw_fixtures[i].id =>
                                \/ raw_fixtures[j] = raw_fixtures[i]
                                \/ raw_fixtures[j] # result[c].fixtures[k]

\* a call on a batch whose first record of an id is not finished and whose
\* second record of that id passes every later stage: nothing is returned
C26_Witness ==
    \E c \in Callers :
        /\ Returned(c)
        /\ Len(raw_fixtures) = 2
        /\ raw_fixtures[1].id = raw_fixtures[2].id
        /\ raw_fixtures[1].status \in NON_FINAL_STATUSES
        /\ raw_fixtures[2] = Official(raw_fixtures[2].id, Past)
        /\ team_id \in { 1, 2 }
        /\ result[c].stats.excluded_duplicates = 1
        /\ result[c].stats.excluded_unfinished = 1
        /\ result[c].fixture_ids = << >>

\* C28: for every batch, team id and n, the inline validator
\* ChatBot._validate_fixtures returns the same valid flag and the same
\* fixture_ids as get_last_team_fixtures called at the same time
C28_InlineAgreesWithCanonical ==
    \A c \in Callers :
        Called(c) =>
            LET inline == validate_fixtures(raw_fixtures, team_id, n, called_at[c])
            IN  /\ inline.raised = result[c].raised
                /\ inline.valid = result[c].valid
                /\ inline.fixture_ids = result[c].fixture_ids

\* the bijections of the positions of a batch
Orderings(batch) ==
    { p \in [1..Len(batch) -> 1..Len(batch)] :
        \A i, j \in 1..Len(batch) : p[i] = p[j] => i = j }

\* the batch with its records in the order p
Reordered(batch, p) == [i \in 1..Len(batch) |-> batch[p[i]]]

\* no id occurs in two records of the batch
NoRepeatedId(batch) ==
    \A i, j \in 1..Len(batch) : batch[i].id = batch[j].id => i = j

\* C30: for a batch in which no id is repeated, the call made on any
\* reordering of the batch returns the same fixture_ids in the same order,
\* the same valid flag and the same value of every exclusion counter (a
\* call that throws returns nothing, and throws on every reordering)
C30_ResultIgnoresBatchOrder ==
    \A c \in Callers :
        (Called(c) /\ NoRepeatedId(raw_fixtures)) =>
            \A p \in Orderings(raw_fixtures) :
                LET other == get_last_team_fixtures(Reordered(raw_fixtures, p),
                                                    team_id, n, called_at[c])
                IN  /\ other.raised = result[c].raised
                    /\ ~other.raised =>
                           /\ other.fixture_ids = result[c].fixture_ids
                           /\ other.valid = result[c].valid
                           /\ other.stats = result[c].stats

\* a returned call on three records of distinct ids and one kickoff string,
\* sent in ascending order of id and returned in descending order, with a
\* second batch of the same records that is not in that order either
C30_Witness ==
    \E c \in Callers :
        /\ Returned(c)
        /\ Len(raw_fixtures) = 3
        /\ NoRepeatedId(raw_fixtures)
        /\ \A i \in 1..3 : raw_fixtures[i].id = i
        /\ \A i \in 1..3 : raw_fixtures[i].date = raw_fixtures[1].date
        /\ n = 3
        /\ result[c].fixture_ids = << 3, 2, 1 >>
        /\ result[c].stats.excluded_future = 0

\* ------------------------------------------------------------------------
\* Properties of the consistency checker and of the chat flow
\* ------------------------------------------------------------------------
\* C3: for a non-empty fixture list the report is valid exactly when every
\* claimed rate and average is within 0.5 of the value calculate_stats
\* recomputes and the claimed form equals the recomputed one
C3_ValidIffEveryFieldAgrees ==
    (report # << >> /\ fixture_set # << >>) =>
        LET recalc == calculate_stats(fixture_set, team_id)
            recalc_form == get_form_string(fixture_set, team_id, 5)
        IN  report[1].valid <=>
                /\ \A key \in REAL_KEYS :
                      ~DiffersBeyond(claimed_stats[key], recalc[key], 1, 2)
                /\ claimed_form = recalc_form

\* C2: a match analysis is returned only after the consistency checker ran
\* on both teams and reported valid for both
C2_AnalysisOnlyAfterValidCheck ==
    \A r \in Requests :
        req[r].response = "match_analysis" =>
            /\ Len(req[r].reports) = 2
            /\ \A i \in 1..Len(req[r].reports) : req[r].reports[i].valid

\* the finished matches with a score in a fixture list
FinishedMatches(fixtures) ==
    { i \in 1..Len(fixtures) :
        /\ fixtures[i].status \in {"FT", "AET", "PEN"}
        /\ fixtures[i].gh # None /\ fixtures[i].ga # None }

\* C9: on every request path, statistics are computed and delivered only for
\* a team with at least 5 finished matches
C9_NoAnalysisBelowFive ==
    \A r \in Requests :
        \A i \in 1..Len(req[r].analysed) :
            Cardinality(FinishedMatches(req[r].analysed[i].fixtures)) >= 5

\* request r returns with the given response in this step
Returns(r, response) ==
    /\ req[r].pc # "done"
    /\ req'[r].pc = "done"
    /\ req'[r].response = response

\* C27: a match-analysis request raises the usage counter of the user by
\* exactly one when it returns an analysis, and leaves it unchanged when it
\* returns an ambiguous-teams, team-not-found or insufficient-data response
C27_UsageFollowsAnalysis ==
    [][ \A r \in Requests :
          /\ Returns(r, "match_analysis") => usage' = usage + 1
          /\ ( \/ Returns(r, "ambiguous_teams")
               \/ Returns(r, "team_not_found")
               \/ Returns(r, "data_error") ) => usage' = usage ]_vars

\* C29: with several requests of one user in flight, the stored usage
\* counter never exceeds the daily limit of the plan, and an analysis is
\* delivered only while the user has a unit of the limit left, so that the
\* analyses of a day never outnumber the limit
C29_DeliveriesWithinLimit ==
    /\ [](usage <= PLAN_LIMITS[plan])
    /\ [][ \A r \in Requests :
             Returns(r, "match_analysis") => usage < PLAN_LIMITS[plan] ]_vars

\* ------------------------------------------------------------------------
\* Properties of the aggregator
\* ------------------------------------------------------------------------
\* the aggregator has run on a non-empty list
Aggregated == aggregate # << >> /\ fixture_set # << >>

\* the fraction a equals 100 * count / total
IsPercentageOf(a, count, total) == a.num * total = 100 * count * a.den

\* C16: the win, draw and loss percentages sum to 100, and every percentage
\* is 100 * count / n for the number n of records counted, which is
\* wins + draws + losses = fixtures_used
C16_PercentagesShareDenominator ==
    Aggregated =>
        LET st == aggregate[1].stats
            counted == st.wins + st.draws + st.losses
            w == st.win_rate_pct
            d == st.draw_rate_pct
            l == st.loss_rate_pct
        IN  /\ w.num * d.den * l.den + d.num * w.den * l.den + l.num * w.den * d.den
                  = 100 * w.den * d.den * l.den
            /\ st.fixtures_used = counted
            /\ IsPercentageOf(w, st.wins, counted)
            /\ IsPercentageOf(d, st.draws, counted)
            /\ IsPercentageOf(l, st.losses, counted)
            /\ IsPercentageOf(st.over_2_5_pct, st.over_2_5_count, counted)
            /\ IsPercentageOf(st.btts_pct, st.btts_count, counted)

\* the records of the list with both goal counts whose match total, home
\* goals + away goals, is above k
MatchesOver(k) ==
    { i \in 1..Len(fixture_set) :
        /\ fixture_set[i].gh # None /\ fixture_set[i].ga # None
        /\ fixture_set[i].gh + fixture_set[i].ga > k }

\* C17: each over-K percentage is 100 * (records whose match total is at
\* least floor(K) + 1) / n, n the length of the list
C17_OverUsesMatchTotal ==
    Aggregated =>
        LET st == aggregate[1].stats
            total == Len(fixture_set)
        IN  /\ IsPercentageOf(st.over_0_5_pct, Cardinality(MatchesOver(0)), total)
            /\ IsPercentageOf(st.over_1_5_pct, Cardinality(MatchesOver(1)), total)
            /\ IsPercentageOf(st.over_2_5_pct, Cardinality(MatchesOver(2)), total)
            /\ IsPercentageOf(st.over_3_5_pct, Cardinality(MatchesOver(3)), total)

\* the aggregator counted as over 2.5 a match in which the analysed team
\* scored once
C17_Witness ==
    /\ Aggregated
    /\ aggregate[1].stats.over_2_5_pct.num > 0
    /\ \A i \in 1..Len(fixture_set) :
          /\ fixture_set[i].home = team_id
          /\ fixture_set[i].gh = 1
          /\ fixture_set[i].ga = 2

RECURSIVE SumOver(_, _, _)
\* over the records of list[i..] with both goal counts, the sum of the home
\* goals where side[j] holds of the record and of the away goals elsewhere
SumOver(list, i, side) ==
    IF i > Len(list) THEN 0
    ELSE (IF list[i].gh = None \/ list[i].ga = None THEN 0
          ELSE IF side[i] THEN list[i].gh ELSE list[i].ga)
           + SumOver(list, i + 1, side)

\* C18: goals_for is the home goals of a record whose home id is team_id and
\* the away goals otherwise, goals_against the other side's goals, so the
\* two sums add up to the sum of the match totals; avg_goals_for is the
\* average of the team's own goals
C18_GoalsForIsOwnGoals ==
    Aggregated =>
        LET st == aggregate[1].stats
            atHome == [i \in 1..Len(fixture_set) |-> fixture_set[i].home = team_id]
            away == [i \in 1..Len(fixture_set) |-> fixture_set[i].home # team_id]
        IN  /\ st.sum_goals_for = SumOver(fixture_set, 1, atHome)
            /\ st.sum_goals_against = SumOver(fixture_set, 1, away)
            /\ st.sum_goals_for + st.sum_goals_against = st.sum_total_goals
            /\ st.avg_goals_for.num * Len(fixture_set)
                  = st.sum_goals_for * st.avg_goals_for.den

\* the aggregator ran on a list with a match played away and a match played
\* at home, and the team's own goals are fewer than the match totals
C18_Witness ==
    /\ Aggregated
    /\ \E i, j \in 1..Len(fixture_set) :
          /\ fixture_set[i].home = team_id /\ fixture_set[i].gh = 1
          /\ fixture_set[i].ga = 0
          /\ fixture_set[j].away = team_id /\ fixture_set[j].ga = 2
          /\ fixture_set[j].gh = 1
    /\ aggregate[1].stats.sum_goals_for = 3
    /\ aggregate[1].stats.sum_total_goals > 3

\* the symbol of the outcome under which calculate_stats counts a record
\* that has both goal counts
CountedAs(fixture) ==
    LET st == calculate_stats(<< fixture >>, team_id)
    IN  IF st.wins = 1 THEN "V" ELSE IF st.draws = 1 THEN "E" ELSE "D"

\* the first window records of the list
InWindow == 1..Min(window, Len(fixture_set))

ScoredInWindow ==
    { i \in InWindow : fixture_set[i].gh # None /\ fixture_set[i].ga # None }

ResolveReturned == resolution.pc = "done"

\* C20: every result of TeamResolver.resolve with success = true has a
\* confidence of at least 0.75 and at most 1, whichever return statement
\* produced it (local hit, local fuzzy match, remote search, local
\* fallback); nothing scoring below 0.75 is returned as resolved
C20_ResolvedConfidenceInBounds ==
    (ResolveReturned /\ resolution.result[1].success) =>
        /\ resolution.result[1].confidence >= 75
        /\ resolution.result[1].confidence <= 100
        /\ resolution.result[1].why \in { "local", "api", "fallback" }
        /\ resolution.result[1].team_id # None

\* a name resolved by the remote search under Brazil context with the full
\* score, after the local fuzzy match at the floor was not taken
C20_Witness ==
    /\ ResolveReturned
    /\ resolution.prefer_brazil
    /\ resolution.local_result.found
    /\ resolution.local_result.confidence = 75
    /\ resolution.result[1].success
    /\ resolution.result[1].why = "api"
    /\ resolution.result[1].confidence = 100

\* C21: when no table hit exists and resolve_local accepts the best fuzzy
\* match (similarity at least 0.85, or at least 0.75 under Brazil context),
\* resolve does not go on to the remote search, and its result is that team
C21_LocalFuzzyShortCircuits ==
    (resolution.local_result.found /\ resolution.local_result.why = "fuzzy") =>
        /\ resolution.pc # "searching"
        /\ ResolveReturned =>
              /\ resolution.result[1].success
              /\ resolution.result[1].team_id = resolution.local_result.id

\* indicator occurs in text as whole tokens: bounded by the ends of the text
\* or by spaces
OccursAsToken(text, indicator) ==
    \E i \in 1..(Len(text) - Len(indicator) + 1) :
        /\ SubSeq(text, i, i + Len(indicator) - 1) = indicator
        /\ i = 1 \/ text[i - 1] = " "
        /\ i + Len(indicator) - 1 = Len(text) \/ text[i + Len(indicator)] = " "

\* the name and the context handed to resolve, as the resolver joins them
FullContext ==
    normalize(resolution.team_name \o << " " >> \o resolution.context)

\* a marker token of Brazil stands in the name or the context
BrazilMarked == \E indicator \in BRAZIL_INDICATORS : OccursAsToken(FullContext, indicator)

\* a marker token of Europe stands in the name or the context
EuropeMarked == \E indicator \in EUROPEAN_INDICATORS : OccursAsToken(FullContext, indicator)

\* the entries of the conflict table whose key the name equals or starts
\* with, followed by a space
ConflictsOfName ==
    { k \in DOMAIN EUROPEAN_CONFLICTS :
        LET key == EUROPEAN_CONFLICTS[k].key
            name == normalize(resolution.team_name)
        IN  \/ name = key
            \/ Len(name) > Len(key) /\ SubSeq(name, 1, Len(key) + 1) = key \o << " " >> }

\* C22: for a structurally ambiguous name resolve returns ambiguous = true,
\* success = false and the suggestions of the conflict table, unless a
\* marker token of a country stands in the context; and the Brazil
\* indication fires only on marker tokens, not on letters inside other words
C22_AmbiguousUnlessMarkerToken ==
    resolution.pc # "idle" =>
        /\ (ConflictsOfName # { } /\ ~BrazilMarked /\ ~EuropeMarked) =>
              /\ ResolveReturned
              /\ resolution.result[1].ambiguous
              /\ ~resolution.result[1].success
              /\ \E k \in ConflictsOfName :
                    resolution.result[1].suggestions = EUROPEAN_CONFLICTS[k].options
        /\ resolution.prefer_brazil => BrazilMarked

\* resolve_match has returned
MatchReturned == pair.pc = "done"

\* the suggestions of an ambiguous single result appear in the suggestions
\* of the pair from position offset + 1 on, tagged with the team's position
SuggestionsMergedAt(single, position, offset) ==
    single.ambiguous =>
        \A i \in DOMAIN single.suggestions :
            /\ offset + i \in DOMAIN pair.result.suggestions
            /\ pair.result.suggestions[offset + i].team = position
            /\ pair.result.suggestions[offset + i].suggestion = single.suggestions[i]

\* C23: if either single result is ambiguous the pair is ambiguous and not
\* successful and lists the suggestions of both ambiguous teams; otherwise
\* if either failed the pair fails and names exactly the names that failed;
\* otherwise it succeeds with the mean of the two confidences; the pair
\* succeeds only if both single resolutions succeeded
C23_PairCombinesSingles ==
    MatchReturned =>
        LET result1 == pair.result1
            result2 == pair.result2
            count1 == IF result1.ambiguous THEN Len(result1.suggestions) ELSE 0
            count2 == IF result2.ambiguous THEN Len(result2.suggestions) ELSE 0
        IN  /\ (result1.ambiguous \/ result2.ambiguous) =>
                  /\ pair.result.ambiguous
                  /\ ~pair.result.success
                  /\ Len(pair.result.suggestions) = count1 + count2
                  /\ SuggestionsMergedAt(result1, 1, 0)
                  /\ SuggestionsMergedAt(result2, 2, count1)
            /\ (~result1.ambiguous /\ ~result2.ambiguous
                  /\ (~result1.success \/ ~result2.success)) =>
                  /\ ~pair.result.success
                  /\ ~pair.result.ambiguous
                  /\ pair.result.failed =
                        (IF result1.success THEN << >> ELSE << pair.team1_name >>)
                          \o (IF result2.success THEN << >> ELSE << pair.team2_name >>)
            /\ (~result1.ambiguous /\ ~result2.ambiguous
                  /\ result1.success /\ result2.success) =>
                  /\ pair.result.success
                  /\ 2 * pair.result.confidence.num
                       = (result1.confidence + result2.confidence)
                           * pair.result.confidence.den
            /\ pair.result.success => (result1.success /\ result2.success)

\* a pair whose second name alone is ambiguous, the first one resolved
C23_Witness ==
    /\ MatchReturned
    /\ pair.result1.success
    /\ pair.result2.ambiguous
    /\ pair.result.ambiguous
    /\ Len(pair.result.suggestions) = 2

\* C24: the result obtained for the first name of a pair (resolved,
\* ambiguous or not found, and which team) is the same whatever the other
\* name of the pair is, the tables and the remote search holding the same
C24_FirstResultIgnoresPartner ==
    pair.pc # "idle" =>
        \A other \in NAMES :
            LET found == ResolveContext[[team_name |-> pair.team1_name,
                                         context |-> MatchContext(pair.team1_name, other)]]
                alone == resolve(found, pair.lookup1, resolution.api)
            IN  /\ alone.success = pair.result1.success
                /\ alone.ambiguous = pair.result1.ambiguous
                /\ alone.team_id = pair.result1.team_id

\* ------------------------------------------------------------------------
\* Properties of the team index
\* ------------------------------------------------------------------------
\* the table a refresh leaves once every league of it is loaded
RECURSIVE TableAfterRefresh(_, _)
TableAfterRefresh(teams_by_name, league_id) ==
    IF league_id > Len(index.responses) THEN teams_by_name
    ELSE TableAfterRefresh(
             LoadLeague(teams_by_name, league_id, index.responses[league_id], 1),
             league_id + 1)

\* C25: a lookup in the team index observes the complete table from before
\* the refresh or the complete table from after it, never a table of which
\* only some leagues are rebuilt
C25_LookupSeesCompleteTable ==
    index.observed # << >> =>
        \/ index.observed[1] = index.before
        \/ index.observed[1] = TableAfterRefresh(index.before, 1)

====
